---------------------------- MODULE Spec2Model ----------------------------
(***************************************************************************)
(* A model of the Pixabay MCP server (server/src/index.ts, pixabay.ts and  *)
(* the schemas): one tool invocation is the handler's validation, query    *)
(* normalisation and request building, then the outbound fetch, the read   *)
(* of the response body and the mapping of the body to the tool's result.  *)
(*                                                                         *)
(* Text is a sequence of one-character strings, so that trimming, JSON     *)
(* parsing and splitting are computed character by character.  A number    *)
(* is counted in halves (Num(3) = 6), so that 2.5 is a value of the model  *)
(* and "is an integer" is a test, not an assumption.                       *)
(***************************************************************************)
EXTENDS Integers, Sequences, FiniteSets, TLC

(***************************************************************************)
(* Configuration (config.ts) and the literals of the schemas.              *)
(***************************************************************************)
defaultPerPage == 6
maxPerPage == 20
minPerPage == 3
minQueryLength == 1
maxQueryLength == 100
defaultLocale == <<"e", "n">>

(***************************************************************************)
(* Bounds of the model.                                                    *)
(***************************************************************************)
\* leading / trailing blanks put around a query
MaxPad == 1
\* per_page values are drawn from minPerPage - slack .. maxPerPage + slack, in halves
PerPageSlack == 1
\* hits in an upstream body
MaxHits == 2
\* length of the exhaustively enumerated raw query strings
MaxRawLen == 3
\* the fields of a raw hit that hold something else than a well-formed hit has
MaxOddFields == 2
\* the largest count of a structured content given to buildSummary
MaxCount == 3
\* tool invocations in flight together
MaxTasks == 2
\* the videos of a tool output
MaxVideos == 2

(***************************************************************************)
(* Numbers, in halves.                                                     *)
(***************************************************************************)
Num(n) == 2 * n
IsInteger(h) == h % 2 = 0

(***************************************************************************)
(* Text.                                                                   *)
(***************************************************************************)
WhiteSpace == {" ", "\t", "\n", "\r"}

RECURSIVE trimStart(_)
trimStart(s) ==
  IF s # <<>> /\ Head(s) \in WhiteSpace THEN trimStart(Tail(s)) ELSE s

RECURSIVE trimEnd(_)
trimEnd(s) ==
  IF s # <<>> /\ s[Len(s)] \in WhiteSpace
  THEN trimEnd(SubSeq(s, 1, Len(s) - 1))
  ELSE s

\* String.prototype.trim
trim(s) == trimEnd(trimStart(s))

\* the text as one string value (for messages and summaries)
RECURSIVE Str(_)
Str(s) == IF s = <<>> THEN "" ELSE Head(s) \o Str(Tail(s))

\* n copies of the character c
Rep(c, n) == [i \in 1..n |-> c]

\* Array.prototype.join
RECURSIVE join(_, _)
join(parts, sep) ==
  IF parts = <<>> THEN ""
  ELSE IF Len(parts) = 1 THEN parts[1]
  ELSE parts[1] \o sep \o join(Tail(parts), sep)

startsWith(s, c) == s # <<>> /\ s[1] = c
endsWith(s, c) == s # <<>> /\ s[Len(s)] = c

(***************************************************************************)
(* The untyped payload of a tool call.  A field is absent ("undefined") or *)
(* holds a JSON value of some kind.                                        *)
(***************************************************************************)
Undefined == "undefined"

QueryValue(kind, s) == [kind |-> kind, str |-> s]
OrientationValue(kind, s) == [kind |-> kind, str |-> s]
BooleanValue(kind, b) == [kind |-> kind, bool |-> b]
NumberValue(kind, h) == [kind |-> kind, num |-> h]

(***************************************************************************)
(* schemas.ts: searchImagesInputSchema, a strict zod object.  Every check  *)
(* of every field runs and adds its issue; the issues come in the order of *)
(* the shape's keys, the unrecognised keys last.                           *)
(***************************************************************************)
orientationValues == {"all", "horizontal", "vertical"}

MsgQueryMin == "Please provide a search query."
MsgQueryMax == "Queries must be 100 characters or fewer."
MsgPerPageMin == "per_page must be between 3 and 20."
MsgPerPageMax == "per_page must be between 3 and " \o ToString(maxPerPage) \o "."
MsgRequired == "Required"
MsgNotInteger == "Expected integer, received float"
MsgBadEnum == "Invalid enum value. Expected 'all' | 'horizontal' | 'vertical'"
MsgUnrecognized == "Unrecognized key(s) in object"
MsgExpected(type, kind) == "Expected " \o type \o ", received " \o kind

\* a query schema without .trim(): the length checks see the text as given
queryIssues_untrimmed(v) ==
  IF v.kind = Undefined THEN <<MsgRequired>>
  ELSE IF v.kind # "string" THEN <<MsgExpected("string", v.kind)>>
  ELSE (IF Len(v.str) < minQueryLength THEN <<MsgQueryMin>> ELSE <<>>)
       \o (IF Len(v.str) > maxQueryLength THEN <<MsgQueryMax>> ELSE <<>>)

\* query: z.string().trim().min(1).max(100)
queryIssues(v) ==
  IF v.kind = Undefined THEN <<MsgRequired>>
  ELSE IF v.kind # "string" THEN <<MsgExpected("string", v.kind)>>
  ELSE (IF Len(trim(v.str)) < minQueryLength THEN <<MsgQueryMin>> ELSE <<>>)
       \o (IF Len(trim(v.str)) > maxQueryLength THEN <<MsgQueryMax>> ELSE <<>>)

\* orientation: z.enum(orientationValues).optional()
orientationIssues(v) ==
  IF v.kind = Undefined THEN <<>>
  ELSE IF v.kind # "string"
  THEN <<MsgExpected("'all' | 'horizontal' | 'vertical'", v.kind)>>
  ELSE IF v.str \notin orientationValues
  THEN <<MsgBadEnum \o ", received '" \o v.str \o "'">>
  ELSE <<>>

\* safesearch: z.boolean().optional()
safesearchIssues(v) ==
  IF v.kind = Undefined \/ v.kind = "boolean" THEN <<>>
  ELSE <<MsgExpected("boolean", v.kind)>>

\* a per_page schema without .max(serverConfig.maxPerPage)
perPageIssues_noMax(v) ==
  IF v.kind = Undefined THEN <<>>
  ELSE IF v.kind # "number" THEN <<MsgExpected("number", v.kind)>>
  ELSE (IF ~IsInteger(v.num) THEN <<MsgNotInteger>> ELSE <<>>)
       \o (IF v.num < Num(minPerPage) THEN <<MsgPerPageMin>> ELSE <<>>)

\* per_page: z.number().int().min(3).max(serverConfig.maxPerPage).optional()
perPageIssues(v) ==
  IF v.kind = Undefined THEN <<>>
  ELSE IF v.kind # "number" THEN <<MsgExpected("number", v.kind)>>
  ELSE (IF ~IsInteger(v.num) THEN <<MsgNotInteger>> ELSE <<>>)
       \o (IF v.num < Num(minPerPage) THEN <<MsgPerPageMin>> ELSE <<>>)
       \o (IF v.num > Num(maxPerPage) THEN <<MsgPerPageMax>> ELSE <<>>)

\* .strict(): one issue naming all the keys the shape does not have
quoteKeys(keys) == [i \in 1..Len(keys) |-> "'" \o keys[i] \o "'"]
unrecognizedKeyIssues(keys) ==
  IF keys = <<>> THEN <<>>
  ELSE <<MsgUnrecognized \o ": " \o join(quoteKeys(keys), ", ")>>

\* the issues of the schema without .strict(): unknown keys are stripped
schemaIssues_notStrict(raw) ==
  IF raw.kind # "object"
  THEN <<IF raw.kind = Undefined THEN MsgRequired ELSE MsgExpected("object", raw.kind)>>
  ELSE queryIssues(raw.query)
       \o orientationIssues(raw.orientation)
       \o safesearchIssues(raw.safesearch)
       \o perPageIssues(raw.per_page)

\* the issues of searchImagesInputSchema.safeParse(rawInput)
schemaIssues(raw) ==
  IF raw.kind # "object"
  THEN <<IF raw.kind = Undefined THEN MsgRequired ELSE MsgExpected("object", raw.kind)>>
  ELSE queryIssues(raw.query)
       \o orientationIssues(raw.orientation)
       \o safesearchIssues(raw.safesearch)
       \o perPageIssues(raw.per_page)
       \o unrecognizedKeyIssues(raw.extraKeys)

\* parsed.data: the query trimmed, the other fields as given
schemaData(raw) ==
  [query |-> trim(raw.query.str),
   orientation |-> raw.orientation,
   safesearch |-> raw.safesearch,
   per_page |-> raw.per_page]

safeParse(raw) ==
  LET issues == schemaIssues(raw)
  IN  [success |-> issues = <<>>, issues |-> issues, data |-> schemaData(raw)]

(***************************************************************************)
(* JSON.parse, as far as normalizeQuery looks at its result: whether the   *)
(* text is a JSON document, the type of the value, the value when it is a  *)
(* string and, for an object, its own "query" member (the last one when    *)
(* the key is repeated).                                                   *)
(***************************************************************************)
JsonWhiteSpace == {" ", "\t", "\n", "\r"}
Digits == {"0", "1", "2", "3", "4", "5", "6", "7", "8", "9"}
HexDigits == Digits \cup {"a", "b", "c", "d", "e", "f", "A", "B", "C", "D", "E", "F"}
ControlChars == {"\t", "\n", "\r", "\f"}
queryKey == <<"q", "u", "e", "r", "y">>

At(s, i) == IF i >= 1 /\ i <= Len(s) THEN s[i] ELSE "<EOF>"

ParseFail ==
  [ok |-> FALSE, pos |-> 0, type |-> "none", str |-> <<>>,
   queryType |-> Undefined, queryStr |-> <<>>]
Parsed(pos, type, str, queryType, queryStr) ==
  [ok |-> TRUE, pos |-> pos, type |-> type, str |-> str,
   queryType |-> queryType, queryStr |-> queryStr]

RECURSIVE skipWs(_, _)
skipWs(s, i) == IF At(s, i) \in JsonWhiteSpace THEN skipWs(s, i + 1) ELSE i

RECURSIVE skipDigits(_, _)
skipDigits(s, i) == IF At(s, i) \in Digits THEN skipDigits(s, i + 1) ELSE i

\* the character a two-character escape stands for
unescape(c) ==
  CASE c = "\"" -> "\""
    [] c = "\\" -> "\\"
    [] c = "/" -> "/"
    [] c = "b" -> "<BS>"
    [] c = "f" -> "\f"
    [] c = "n" -> "\n"
    [] c = "r" -> "\r"
    [] c = "t" -> "\t"
    [] OTHER -> "<none>"

\* the character \uXXXX stands for: the ones the model writes, else a token
codeUnit(hex) ==
  CASE hex = <<"0", "0", "2", "0">> -> " "
    [] hex = <<"0", "0", "0", "9">> -> "\t"
    [] hex = <<"0", "0", "6", "1">> -> "a"
    [] hex = <<"0", "0", "6", "3">> -> "c"
    [] OTHER -> "U+" \o Str(hex)

\* the characters of a string from position i to its closing quote
RECURSIVE stringBody(_, _, _)
stringBody(s, i, acc) ==
  LET c == At(s, i)
  IN  IF i > Len(s) THEN ParseFail
      ELSE IF c = "\"" THEN Parsed(i + 1, "string", acc, Undefined, <<>>)
      ELSE IF c = "\\"
      THEN IF unescape(At(s, i + 1)) # "<none>"
           THEN stringBody(s, i + 2, Append(acc, unescape(At(s, i + 1))))
           ELSE IF At(s, i + 1) = "u" /\ \A k \in 2..5 : At(s, i + k) \in HexDigits
           THEN stringBody(s, i + 6, Append(acc, codeUnit(SubSeq(s, i + 2, i + 5))))
           ELSE ParseFail
      ELSE IF c \in ControlChars THEN ParseFail
      ELSE stringBody(s, i + 1, Append(acc, c))

\* number: -? (0 | [1-9][0-9]*) (. [0-9]+)? ([eE] [+-]? [0-9]+)?
parseNumber(s, i) ==
  LET i1 == IF At(s, i) = "-" THEN i + 1 ELSE i
      i2 == IF At(s, i1) = "0" THEN i1 + 1 ELSE skipDigits(s, i1)
      f1 == IF At(s, i2) = "." THEN skipDigits(s, i2 + 1) ELSE i2
      fracOk == At(s, i2) # "." \/ f1 > i2 + 1
      e0 == IF At(s, f1) \in {"e", "E"}
            THEN (IF At(s, f1 + 1) \in {"+", "-"} THEN f1 + 2 ELSE f1 + 1)
            ELSE f1
      e1 == IF At(s, f1) \in {"e", "E"} THEN skipDigits(s, e0) ELSE f1
      expOk == At(s, f1) \notin {"e", "E"} \/ e1 > e0
  IN  IF i2 > i1 /\ fracOk /\ expOk
      THEN Parsed(e1, "number", <<>>, Undefined, <<>>)
      ELSE ParseFail

parseLiteral(s, i, word, type) ==
  IF SubSeq(s, i, i + Len(word) - 1) = word /\ i + Len(word) - 1 <= Len(s)
  THEN Parsed(i + Len(word), type, <<>>, Undefined, <<>>)
  ELSE ParseFail

RECURSIVE parseValue(_, _)
RECURSIVE arrayElements(_, _)
RECURSIVE objectMembers(_, _, _, _)

\* the elements of an array from position i to its closing bracket
arrayElements(s, i) ==
  LET v == parseValue(s, i)
      j == skipWs(s, v.pos)
  IN  IF ~v.ok THEN ParseFail
      ELSE IF At(s, j) = "," THEN arrayElements(s, j + 1)
      ELSE IF At(s, j) = "]" THEN Parsed(j + 1, "array", <<>>, Undefined, <<>>)
      ELSE ParseFail

\* the members of an object from position i to its closing brace
objectMembers(s, i, queryType, queryStr) ==
  LET j == skipWs(s, i)
      key == IF At(s, j) = "\"" THEN stringBody(s, j + 1, <<>>) ELSE ParseFail
      k == skipWs(s, key.pos)
      v == IF key.ok /\ At(s, k) = ":" THEN parseValue(s, k + 1) ELSE ParseFail
      m == skipWs(s, v.pos)
      qt == IF key.str = queryKey THEN v.type ELSE queryType
      qs == IF key.str = queryKey THEN v.str ELSE queryStr
  IN  IF ~v.ok THEN ParseFail
      ELSE IF At(s, m) = "," THEN objectMembers(s, m + 1, qt, qs)
      ELSE IF At(s, m) = "}" THEN Parsed(m + 1, "object", <<>>, qt, qs)
      ELSE ParseFail

parseValue(s, i) ==
  LET j == skipWs(s, i)
      c == At(s, j)
  IN  CASE c = "{" ->
             IF At(s, skipWs(s, j + 1)) = "}"
             THEN Parsed(skipWs(s, j + 1) + 1, "object", <<>>, Undefined, <<>>)
             ELSE objectMembers(s, j + 1, Undefined, <<>>)
        [] c = "[" ->
             IF At(s, skipWs(s, j + 1)) = "]"
             THEN Parsed(skipWs(s, j + 1) + 1, "array", <<>>, Undefined, <<>>)
             ELSE arrayElements(s, j + 1)
        [] c = "\"" -> stringBody(s, j + 1, <<>>)
        [] c = "t" -> parseLiteral(s, j, <<"t", "r", "u", "e">>, "boolean")
        [] c = "f" -> parseLiteral(s, j, <<"f", "a", "l", "s", "e">>, "boolean")
        [] c = "n" -> parseLiteral(s, j, <<"n", "u", "l", "l">>, "null")
        [] c = "-" \/ c \in Digits -> parseNumber(s, j)
        [] OTHER -> ParseFail

\* JSON.parse(text): a document is one value and nothing after it
document(s, v) == IF v.ok /\ skipWs(s, v.pos) = Len(s) + 1 THEN v ELSE ParseFail
JSONparse(s) == document(s, parseValue(s, 1))

(***************************************************************************)
(* index.ts: normalizeQuery.  The result says whether the call returned    *)
(* or threw, and the value returned.                                       *)
(***************************************************************************)
Returned(value) == [status |-> "returned", value |-> value]
Threw == [status |-> "threw", value |-> <<>>]

looksBracketed(trimmed) ==
  \/ startsWith(trimmed, "{") /\ endsWith(trimmed, "}")
  \/ startsWith(trimmed, "[") /\ endsWith(trimmed, "]")

\* a try block that takes the query field as it stands, blank or padded
recoverQuery_untrimmed(query, trimmed, parsed) ==
  IF ~parsed.ok THEN Returned(trimmed)
  ELSE IF parsed.type = "string"
  THEN Returned(IF trim(parsed.str) # <<>> THEN trim(parsed.str) ELSE query)
  ELSE IF parsed.type \in {"object", "array"} /\ parsed.queryType = "string"
  THEN Returned(parsed.queryStr)
  ELSE Returned(trimmed)

\* the try block, given what JSON.parse did; the catch swallows its throw
recoverQuery(query, trimmed, parsed) ==
  IF ~parsed.ok THEN Returned(trimmed)
  ELSE IF parsed.type = "string"
  THEN Returned(IF trim(parsed.str) # <<>> THEN trim(parsed.str) ELSE query)
  ELSE IF /\ parsed.type \in {"object", "array"}
          /\ parsed.queryType = "string"
          /\ Len(trim(parsed.queryStr)) > 0
  THEN Returned(trim(parsed.queryStr))
  ELSE Returned(trimmed)

\* a normalizeQuery without the early return for a blank text, and whose
\* JSON.parse is not inside a try
normalizeTrimmed_noGuards(query, trimmed) ==
  IF looksBracketed(trimmed)
  THEN (IF JSONparse(trimmed).ok THEN recoverQuery(query, trimmed, JSONparse(trimmed))
        ELSE Threw)
  ELSE Returned(trimmed)

normalizeTrimmed(query, trimmed) ==
  IF trimmed = <<>> THEN Returned(query)
  ELSE IF looksBracketed(trimmed)
  THEN recoverQuery(query, trimmed, JSONparse(trimmed))
  ELSE Returned(trimmed)

normalizeQuery(query) == normalizeTrimmed(query, trim(query))

(***************************************************************************)
(* index.ts: resolveLocale.  The call metadata is absent or an object      *)
(* whose two locale keys each hold a value of some kind.                   *)
(***************************************************************************)
LocaleValue(kind, s) == [kind |-> kind, str |-> s]
NoMeta == [kind |-> Undefined, openai |-> LocaleValue(Undefined, <<>>),
           webplus |-> LocaleValue(Undefined, <<>>)]
Meta(openai, webplus) == [kind |-> "object", openai |-> openai, webplus |-> webplus]

\* a ?? b
nullish(v) == v.kind \in {Undefined, "null"}

resolveLocale(meta) ==
  LET locale == IF nullish(meta.openai) THEN meta.webplus ELSE meta.openai
  IN  IF meta.kind = "object" /\ locale.kind = "string" /\ Len(locale.str) > 0
      THEN locale.str
      ELSE defaultLocale

(***************************************************************************)
(* pixabay.ts: resolveLanguage.                                            *)
(***************************************************************************)
UpperCase == <<"A", "B", "C", "D", "E", "F", "G", "H", "I", "J", "K", "L", "M",
               "N", "O", "P", "Q", "R", "S", "T", "U", "V", "W", "X", "Y", "Z">>
LowerCase == <<"a", "b", "c", "d", "e", "f", "g", "h", "i", "j", "k", "l", "m",
               "n", "o", "p", "q", "r", "s", "t", "u", "v", "w", "x", "y", "z">>

toLowerCase(s) ==
  [i \in 1..Len(s) |->
     IF \E k \in 1..Len(UpperCase) : UpperCase[k] = s[i]
     THEN LowerCase[CHOOSE k \in 1..Len(UpperCase) : UpperCase[k] = s[i]]
     ELSE s[i]]

SUPPORTED_LANGS ==
  {<<"c", "s">>, <<"d", "a">>, <<"d", "e">>, <<"e", "n">>, <<"e", "s">>,
   <<"f", "r">>, <<"i", "d">>, <<"i", "t">>, <<"h", "u">>, <<"n", "l">>,
   <<"n", "o">>, <<"p", "l">>, <<"p", "t">>, <<"r", "o">>, <<"s", "k">>,
   <<"f", "i">>, <<"s", "v">>, <<"t", "r">>, <<"v", "i">>, <<"t", "h">>,
   <<"b", "g">>, <<"r", "u">>, <<"e", "l">>, <<"j", "a">>, <<"k", "o">>,
   <<"z", "h">>}

\* locale.split(/[-_]/)[0]
RECURSIVE primarySubtag(_)
primarySubtag(s) ==
  IF s = <<>> \/ Head(s) \in {"-", "_"} THEN <<>>
  ELSE <<Head(s)>> \o primarySubtag(Tail(s))

resolveLanguage(locale) ==
  LET candidate == toLowerCase(primarySubtag(locale))
  IN  IF locale # <<>> /\ candidate # <<>> /\ candidate \in SUPPORTED_LANGS
      THEN candidate
      ELSE defaultLocale

(***************************************************************************)
(* pixabay.ts: the upstream request of searchImages and of searchVideos.   *)
(***************************************************************************)
NoRequest ==
  [endpoint |-> "none", q |-> <<>>, safesearch |-> TRUE, per_page |-> 0,
   lang |-> <<>>, image_type |-> Undefined, orientation |-> Undefined]

imageSearchParams(params) ==
  [endpoint |-> "images",
   q |-> params.query,
   safesearch |-> IF params.safesearch.kind = Undefined THEN TRUE
                  ELSE params.safesearch.bool,
   per_page |-> IF params.per_page.kind = Undefined THEN Num(defaultPerPage)
                ELSE params.per_page.num,
   lang |-> resolveLanguage(params.locale),
   image_type |-> "photo",
   orientation |-> IF params.orientation.kind = Undefined THEN "all"
                   ELSE params.orientation.str]

\* the stdio server's client: lang is params.locale ?? serverConfig.defaultLocale
stdioSearchParams(params) ==
  [endpoint |-> "images",
   q |-> params.query,
   safesearch |-> IF params.safesearch.kind = Undefined THEN TRUE
                  ELSE params.safesearch.bool,
   per_page |-> IF params.per_page.kind = Undefined THEN Num(defaultPerPage)
                ELSE params.per_page.num,
   lang |-> params.locale,
   image_type |-> "photo",
   orientation |-> IF params.orientation.kind = Undefined THEN "all"
                   ELSE params.orientation.str]

\* a video search that sends the image parameters too
videoSearchParams_withImageParameters(params) ==
  [imageSearchParams(params) EXCEPT !.endpoint = "videos"]

videoSearchParams(params) ==
  [endpoint |-> "videos",
   q |-> params.query,
   safesearch |-> IF params.safesearch.kind = Undefined THEN TRUE
                  ELSE params.safesearch.bool,
   per_page |-> IF params.per_page.kind = Undefined THEN Num(defaultPerPage)
                ELSE params.per_page.num,
   lang |-> resolveLanguage(params.locale),
   image_type |-> Undefined,
   orientation |-> Undefined]

(***************************************************************************)
(* pixabay.ts: rate-limit headers.                                         *)
(***************************************************************************)
HeaderValue(kind, s) == [kind |-> kind, str |-> s]
NoHeader == HeaderValue("null", <<>>)
Unknown == [defined |-> FALSE, value |-> 0]
Known(n) == [defined |-> TRUE, value |-> n]

RECURSIVE digitsValue(_, _)
digitsValue(s, acc) ==
  IF s = <<>> THEN acc
  ELSE digitsValue(Tail(s),
         10 * acc + (CHOOSE d \in 0..9 : ToString(d) = Head(s)))

\* Number(text), for text of digits, a sign, blanks and letters
jsNumber(text) ==
  LET s == trim(text)
      signed == s # <<>> /\ Head(s) \in {"-", "+"}
      body == IF signed THEN Tail(s) ELSE s
  IN  IF s = <<>> THEN Known(0)
      ELSE IF body # <<>> /\ \A i \in 1..Len(body) : body[i] \in Digits
      THEN Known(IF signed /\ Head(s) = "-" THEN 0 - digitsValue(body, 0)
                 ELSE digitsValue(body, 0))
      ELSE Unknown

\* a parseHeader that reports what Number gave, finite or not
parseHeader_unchecked(value) ==
  IF value.kind = "null" \/ value.str = <<>> THEN Unknown
  ELSE Known(jsNumber(value.str).value)

parseHeader(value) ==
  IF value.kind = "null" \/ value.str = <<>> THEN Unknown
  ELSE jsNumber(value.str)

NoRateLimit == [limit |-> Unknown, remaining |-> Unknown, resetSeconds |-> Unknown]

extractRateLimit(headers) ==
  [limit |-> parseHeader(headers.limit),
   remaining |-> parseHeader(headers.remaining),
   resetSeconds |-> parseHeader(headers.reset)]

(***************************************************************************)
(* Errors.  An error is what the handler's promise rejects with.           *)
(***************************************************************************)
NoError == [name |-> "none", code |-> "none", message |-> ""]
McpError(code, message) == [name |-> "McpError", code |-> code, message |-> message]
\* what fetch and the body readers reject with when the signal aborts
AbortError == [name |-> "AbortError", code |-> "none",
               message |-> "This operation was aborted"]
\* what fetch rejects with when the network fails
FetchFailed == [name |-> "TypeError", code |-> "none", message |-> "fetch failed"]
\* what response.json() rejects with on a body that is not JSON
BodySyntaxError == [name |-> "SyntaxError", code |-> "none",
                    message |-> "Unexpected token in JSON"]
\* what reading a member of a body that is null throws
BodyTypeError == [name |-> "TypeError", code |-> "none",
                  message |-> "Cannot read properties of null"]

MsgAuthFailed == "Pixabay authentication failed. Verify PIXABAY_API_KEY."
MsgRateLimited == "Pixabay rate limit exceeded. Please wait a moment before trying again."

\* response.ok
ok(status) == status >= 200 /\ status <= 299

\* a safeReadError that does not trim the text
safeReadError_untrimmed(readable, text, statusText) ==
  IF readable /\ text # <<>> THEN Str(text) ELSE statusText

\* safeReadError: the body text trimmed, or the status text when the body is
\* blank or reading it fails
safeReadError(readable, text, statusText) ==
  IF readable /\ trim(text) # <<>> THEN Str(trim(text)) ELSE statusText

\* a throwForErrorResponse that returns on 429, leaving the caller to go on
throwForErrorResponse_returnsOn429(status, message) ==
  [thrown |-> status # 429,
   error |->
     IF status = 401 \/ status = 403 THEN McpError("InternalError", MsgAuthFailed)
     ELSE McpError("InternalError",
            "Pixabay request failed (" \o ToString(status) \o "): " \o message)]

\* a throwForErrorResponse whose authentication case is 401 only
throwForErrorResponse_401Only(status, message) ==
  [thrown |-> TRUE,
   error |->
     IF status = 401 THEN McpError("InternalError", MsgAuthFailed)
     ELSE IF status = 429 THEN McpError("InternalError", MsgRateLimited)
     ELSE McpError("InternalError",
            "Pixabay request failed (" \o ToString(status) \o "): " \o message)]

\* a throwForErrorResponse without the rate-limit case
throwForErrorResponse_no429Case(status, message) ==
  [thrown |-> TRUE,
   error |->
     IF status = 401 \/ status = 403 THEN McpError("InternalError", MsgAuthFailed)
     ELSE McpError("InternalError",
            "Pixabay request failed (" \o ToString(status) \o "): " \o message)]

\* throwForErrorResponse: whether it throws, and what
throwForErrorResponse(status, message) ==
  [thrown |-> TRUE,
   error |->
     IF status = 401 \/ status = 403 THEN McpError("InternalError", MsgAuthFailed)
     ELSE IF status = 429 THEN McpError("InternalError", MsgRateLimited)
     ELSE McpError("InternalError",
            "Pixabay request failed (" \o ToString(status) \o "): " \o message)]

(***************************************************************************)
(* pixabay.ts: the mapping of an upstream body.  A hit is its id and       *)
(* whether it passes the hit schema (and, for a video, has a rendition     *)
(* with a usable URL); the hits that do not are dropped.                   *)
(***************************************************************************)
Hit(id, shape) == [id |-> id, shape |-> shape]
passesHitSchema(hit) == hit.shape = "valid"

\* a loop that ends at the first hit that fails the schema
RECURSIVE parsedHits_stopsAtInvalid(_)
parsedHits_stopsAtInvalid(hits) ==
  IF hits = <<>> \/ ~passesHitSchema(Head(hits)) THEN <<>>
  ELSE <<Head(hits)>> \o parsedHits_stopsAtInvalid(Tail(hits))

RECURSIVE parsedHits(_)
parsedHits(hits) ==
  IF hits = <<>> THEN <<>>
  ELSE (IF passesHitSchema(Head(hits)) THEN <<Head(hits)>> ELSE <<>>)
       \o parsedHits(Tail(hits))

mapResults(hits) == [i \in 1..Len(parsedHits(hits)) |-> [id |-> parsedHits(hits)[i].id]]

NoSearchResult == [results |-> <<>>, totalHits |-> 0, rateLimit |-> NoRateLimit]

\* the value searchImages / searchVideos returns for a JSON body
searchResult(body, rateLimit) ==
  LET results == mapResults(IF body.hitsIsArray THEN body.hits ELSE <<>>)
  IN  [results |-> results,
       totalHits |-> IF body.totalHits.defined THEN body.totalHits.value
                     ELSE Len(results),
       rateLimit |-> rateLimit]

(***************************************************************************)
(* pixabay.ts: the hit schemas.  A raw hit is a JSON object; each field is *)
(* given by the kind of its value: absent, null, a number, the empty       *)
(* string, a string that is no URL, an http(s) URL, a URL of another       *)
(* scheme.                                                                 *)
(***************************************************************************)
FieldKinds == {Undefined, "null", "number", "emptyString", "text", "httpUrl", "otherUrl"}

\* z.number(), z.string(), z.string().url()
zNumber(v) == v = "number"
zString(v) == v \in {"emptyString", "text", "httpUrl", "otherUrl"}
zStringUrl(v) == v \in {"httpUrl", "otherUrl"}

\* z.union([z.string().url(), z.literal(""), z.null()]).optional().nullable()
userImageURLSchema(v) == zStringUrl(v) \/ v = "emptyString" \/ v = "null" \/ v = Undefined

\* pixabayImageHitSchema.safeParse(rawHit).success
pixabayImageHitSchema(hit) ==
  /\ zNumber(hit.id)
  /\ zStringUrl(hit.pageURL)
  /\ zStringUrl(hit.previewURL)
  /\ zStringUrl(hit.webformatURL)
  /\ zNumber(hit.imageWidth)
  /\ zNumber(hit.imageHeight)
  /\ zString(hit.tags)
  /\ zString(hit.user)
  /\ zNumber(hit.user_id)
  /\ userImageURLSchema(hit.userImageURL)
  /\ zNumber(hit.likes)
  /\ zNumber(hit.downloads)

\* what the loop of searchImages does with one raw hit
\* String.prototype.split(","), from the end of the text
RECURSIVE split(_, _)
split(text, piece) ==
  IF text = <<>> THEN <<piece>>
  ELSE IF text[Len(text)] = ","
  THEN split(SubSeq(text, 1, Len(text) - 1), <<>>) \o <<piece>>
  ELSE split(SubSeq(text, 1, Len(text) - 1), <<text[Len(text)]>> \o piece)

\* a normalizeTags that hands the tags out last to first
normalizeTags_lastFirst(tags) ==
  LET kept == SelectSeq([i \in 1..Len(split(tags, <<>>)) |-> trim(split(tags, <<>>)[i])],
                        LAMBDA tag : Len(tag) > 0)
  IN  [i \in 1..Len(kept) |-> kept[Len(kept) + 1 - i]]

\* tags.split(",").map((tag) => tag.trim()).filter((tag) => tag.length > 0)
normalizeTags(tags) ==
  SelectSeq([i \in 1..Len(split(tags, <<>>)) |-> trim(split(tags, <<>>)[i])],
            LAMBDA tag : Len(tag) > 0)

\* the results of searchImages for hits that carry their tags
taggedResults(hits) ==
  [i \in 1..Len(parsedHits(hits)) |->
     [id |-> parsedHits(hits)[i].id, tags |-> normalizeTags(parsedHits(hits)[i].tags)]]

Kept == [status |-> "kept"]
Dropped == [status |-> "dropped"]
mapImageHit(hit) == IF pixabayImageHitSchema(hit) THEN Kept ELSE Dropped

(***************************************************************************)
(* pixabay.ts: the video mapper.  A video hit is its four renditions, each *)
(* absent or the kinds of its url and thumbnail, and whether its other     *)
(* fields (id, pageURL, tags, duration, type, user, user_id, the           *)
(* renditions' width and height, ...) pass pixabayVideoHitSchema.          *)
(* "paddedHttpUrl" is an http(s) URL with blanks around it.                *)
(***************************************************************************)
VIDEO_RENDITION_ORDER == <<"medium", "large", "small", "tiny">>
THUMBNAIL_RENDITION_ORDER == <<"medium", "small", "large", "tiny">>

Rendition(url, thumbnail) == [present |-> TRUE, url |-> url, thumbnail |-> thumbnail]
NoRendition == [present |-> FALSE, url |-> Undefined, thumbnail |-> Undefined]
VideoHit(medium, large, small, tiny, others) ==
  [videos |-> [medium |-> medium, large |-> large, small |-> small, tiny |-> tiny],
   others |-> others]

\* sanitizeUrl: the value trimmed when it is an http(s) URL, else null
sanitizeUrl(value) ==
  IF value \in {"httpUrl", "paddedHttpUrl"} THEN "httpUrl" ELSE "null"

\* urlOrEmpty = z.string().url().or(z.literal(""))
urlOrEmpty(v) == v \in {"httpUrl", "paddedHttpUrl", "otherUrl", "emptyString"}

\* pixabayVideoRenditionSchema.optional(), as far as url and thumbnail go
pixabayVideoRenditionSchema(r) ==
  ~r.present \/ (urlOrEmpty(r.url) /\ (r.thumbnail = Undefined \/ urlOrEmpty(r.thumbnail)))

pixabayVideoHitSchema(hit) ==
  /\ hit.others = "valid"
  /\ \A key \in DOMAIN hit.videos : pixabayVideoRenditionSchema(hit.videos[key])

\* the loop of pickVideoRendition over the keys left: the key chosen, or null
RECURSIVE pickFrom(_, _)
pickFrom(hit, keys) ==
  IF keys = <<>> THEN "null"
  ELSE IF hit.videos[Head(keys)].present
          /\ sanitizeUrl(hit.videos[Head(keys)].url) # "null"
  THEN Head(keys)
  ELSE pickFrom(hit, Tail(keys))

pickVideoRendition(hit) == pickFrom(hit, VIDEO_RENDITION_ORDER)

\* a URL of the result: its value and the rendition it was taken from
NoUrl == [value |-> "null", from |-> "none"]
UrlOf(value, key) == [value |-> value, from |-> key]

\* the loop of findThumbnail over the keys left
RECURSIVE thumbnailFrom(_, _)
thumbnailFrom(hit, keys) ==
  IF keys = <<>> THEN NoUrl
  ELSE IF hit.videos[Head(keys)].present
          /\ sanitizeUrl(hit.videos[Head(keys)].thumbnail) # "null"
  THEN UrlOf(sanitizeUrl(hit.videos[Head(keys)].thumbnail), Head(keys))
  ELSE thumbnailFrom(hit, Tail(keys))

\* a findThumbnail that does not look at the preferred thumbnail first
findThumbnail_ignoresPreferred(hit, key) == thumbnailFrom(hit, THUMBNAIL_RENDITION_ORDER)

\* findThumbnail(hit, rendition.thumbnail), the rendition being hit.videos[key]
findThumbnail(hit, key) ==
  IF sanitizeUrl(hit.videos[key].thumbnail) # "null"
  THEN UrlOf(sanitizeUrl(hit.videos[key].thumbnail), key)
  ELSE thumbnailFrom(hit, THUMBNAIL_RENDITION_ORDER)

KeptVideo(videoUrl, previewImageUrl) ==
  [status |-> "kept", videoUrl |-> videoUrl, previewImageUrl |-> previewImageUrl]

\* the result for a hit that passed the schema, its rendition picked
toVideoResult(hit, key) ==
  IF key = "null" THEN Dropped
  ELSE KeptVideo(UrlOf(sanitizeUrl(hit.videos[key].url), key), findThumbnail(hit, key))

\* what the loops of searchVideos do with one raw hit
mapVideoHit(hit) ==
  IF ~pixabayVideoHitSchema(hit) THEN Dropped
  ELSE toVideoResult(hit, pickVideoRendition(hit))

(***************************************************************************)
(* index.ts: the result of a tool call.                                    *)
(***************************************************************************)
Absent == 0 - 1

\* toStructuredContent of the image-only server
imageStructuredContent(input, result) ==
  [variant |-> "imageOnly",
   query |-> input.query,
   resultCount |-> Len(result.results),
   results |-> result.results,
   imageCount |-> Absent, videoCount |-> Absent,
   images |-> <<>>, videos |-> <<>>,
   attribution |-> "Images provided by Pixabay under the Pixabay License."]

\* a toStructuredContent that counts the other category as well
toStructuredContent_countsBoth(input, hasImages, imageResult, hasVideos, videoResult) ==
  [variant |-> "combined",
   query |-> input.query,
   resultCount |-> Absent,
   results |-> <<>>,
   imageCount |-> Len(imageResult.results),
   videoCount |-> Len(videoResult.results),
   images |-> IF hasImages THEN imageResult.results ELSE <<>>,
   videos |-> IF hasVideos THEN videoResult.results ELSE <<>>,
   attribution |-> "Media provided by Pixabay under the Pixabay License."]

\* toStructuredContent of the image and video server
toStructuredContent(input, hasImages, imageResult, hasVideos, videoResult) ==
  [variant |-> "combined",
   query |-> input.query,
   resultCount |-> Absent,
   results |-> <<>>,
   imageCount |-> IF hasImages THEN Len(imageResult.results) ELSE 0,
   videoCount |-> IF hasVideos THEN Len(videoResult.results) ELSE 0,
   images |-> IF hasImages THEN imageResult.results ELSE <<>>,
   videos |-> IF hasVideos THEN videoResult.results ELSE <<>>,
   attribution |-> "Media provided by Pixabay under the Pixabay License."]

NoContent ==
  [variant |-> "none", query |-> <<>>, resultCount |-> Absent, results |-> <<>>,
   imageCount |-> Absent, videoCount |-> Absent, images |-> <<>>, videos |-> <<>>,
   attribution |-> ""]

plural(n) == IF n = 1 THEN "" ELSE "s"

\* the summary of the image-only server
imageSummary(content) ==
  IF content.resultCount > 0
  THEN "Found " \o ToString(content.resultCount) \o " Pixabay image"
       \o plural(content.resultCount) \o " for \"" \o Str(content.query) \o "\"."
  ELSE "No Pixabay images found for \"" \o Str(content.query)
       \o "\". Try a different description or add more detail."

\* descriptors.slice(0, -1).join(", ") and descriptors.slice(-1)
joinDescriptors(descriptors) ==
  IF Len(descriptors) = 1 THEN descriptors[1]
  ELSE join(SubSeq(descriptors, 1, Len(descriptors) - 1), ", ")
       \o " and " \o descriptors[Len(descriptors)]

\* a buildSummary that names both categories whatever their counts
buildSummary_listsEmptyCategories(content) ==
  IF content.imageCount + content.videoCount > 0
  THEN "Found " \o ToString(content.imageCount) \o " image" \o plural(content.imageCount)
       \o " and " \o ToString(content.videoCount) \o " video"
       \o plural(content.videoCount) \o " on Pixabay for \""
       \o Str(content.query) \o "\"."
  ELSE "No Pixabay media found for \"" \o Str(content.query)
       \o "\". Try a different description or add more detail."

buildSummary(content) ==
  LET descriptors ==
        (IF content.imageCount > 0
         THEN <<ToString(content.imageCount) \o " image" \o plural(content.imageCount)>>
         ELSE <<>>)
        \o (IF content.videoCount > 0
            THEN <<ToString(content.videoCount) \o " video" \o plural(content.videoCount)>>
            ELSE <<>>)
  IN  IF Len(descriptors) > 0
      THEN "Found " \o joinDescriptors(descriptors) \o " on Pixabay for \""
           \o Str(content.query) \o "\"."
      ELSE "No Pixabay media found for \"" \o Str(content.query)
           \o "\". Try a different description or add more detail."

NoResultMeta ==
  [locale |-> <<>>, rateLimitKey |-> Undefined, rateLimit |-> NoRateLimit,
   totalHitsKey |-> Undefined, totalHits |-> Absent]
NoResult ==
  [present |-> FALSE, summary |-> "", structuredContent |-> NoContent,
   meta |-> NoResultMeta]

\* what the handler of the image-only server returns
imageOnlyResult(input, locale, found) ==
  LET content == imageStructuredContent(input, found)
  IN  [present |-> TRUE,
       summary |-> imageSummary(content),
       structuredContent |-> content,
       meta |-> [locale |-> locale, rateLimitKey |-> "rateLimit",
                 rateLimit |-> found.rateLimit,
                 totalHitsKey |-> Undefined, totalHits |-> Absent]]

\* what the handlers of the image and video server return
combinedResult(input, locale, tool, found) ==
  LET content == toStructuredContent(input, tool = "images", found,
                                     tool = "videos", found)
  IN  [present |-> TRUE,
       summary |-> buildSummary(content),
       structuredContent |-> content,
       meta |-> [locale |-> locale, rateLimitKey |-> tool,
                 rateLimit |-> found.rateLimit,
                 totalHitsKey |-> tool, totalHits |-> found.totalHits]]

handlerResult(variant, tool, input, locale, found) ==
  IF variant \in {"imageOnly", "stdio"} THEN imageOnlyResult(input, locale, found)
  ELSE combinedResult(input, locale, tool, found)

(***************************************************************************)
(* index.ts: the tool handlers, up to the outbound call.  The handler runs *)
(* without interruption from its entry to the fetch it awaits.             *)
(***************************************************************************)
NoInput ==
  [query |-> <<>>, orientation |-> OrientationValue(Undefined, ""),
   safesearch |-> BooleanValue(Undefined, FALSE),
   per_page |-> NumberValue(Undefined, 0)]

\* a message made of the first issue only
errorMessage_firstOnly(issues) == issues[1]

\* parsed.error.issues.map((issue) => issue.message).join("; ")
errorMessage(issues) == join(issues, "; ")

\* a handler that answers a bad payload with the message as its summary
throwInvalidParams_asSummary(issues) ==
  [pc |-> "returned", error |-> NoError,
   issues |-> issues, input |-> NoInput, request |-> NoRequest, sent |-> 0,
   result |-> [NoResult EXCEPT !.present = TRUE, !.summary = errorMessage(issues)]]

\* throw new McpError(ErrorCode.InvalidParams, errorMessage)
throwInvalidParams(issues) ==
  [pc |-> "threw", error |-> McpError("InvalidParams", errorMessage(issues)),
   issues |-> issues, input |-> NoInput, request |-> NoRequest, sent |-> 0,
   result |-> NoResult]

\* { ...normalizedInput, locale }
searchParams(input, locale) ==
  [query |-> input.query, orientation |-> input.orientation,
   safesearch |-> input.safesearch, per_page |-> input.per_page,
   locale |-> locale]

\* the call of searchImages / searchVideos, up to the fetch it awaits
callClient(input, locale, tool) ==
  [pc |-> "fetching", error |-> NoError, issues |-> <<>>, input |-> input,
   request |-> IF tool = "images" THEN imageSearchParams(searchParams(input, locale))
               ELSE videoSearchParams(searchParams(input, locale)),
   sent |-> 1, result |-> NoResult]

\* normalizedInput = { ...input, query: normalizeQuery(input.query) }
normalizeInput(data, normalized, locale, tool) ==
  IF normalized.status = "threw"
  THEN [pc |-> "threw", error |-> BodySyntaxError, issues |-> <<>>,
        input |-> NoInput, request |-> NoRequest, sent |-> 0, result |-> NoResult]
  ELSE callClient([data EXCEPT !.query = normalized.value], locale, tool)

startSearch(data, locale, tool) ==
  normalizeInput(data, normalizeQuery(data.query), locale, tool)

\* a handler that searches without looking at parsed.success
afterParse_unchecked(parsed, locale, tool) == startSearch(parsed.data, locale, tool)

\* if (!parsed.success) throw ...; otherwise the search
afterParse(parsed, locale, tool) ==
  IF ~parsed.success THEN throwInvalidParams(parsed.issues)
  ELSE startSearch(parsed.data, locale, tool)

handlerStart(raw, locale, tool) == afterParse(safeParse(raw), locale, tool)

\* the handler of the stdio server: the parsed input goes to the client as it is
stdioCallClient(input, locale) ==
  [pc |-> "fetching", error |-> NoError, issues |-> <<>>, input |-> input,
   request |-> stdioSearchParams(searchParams(input, locale)),
   sent |-> 1, result |-> NoResult]

stdioAfterParse(parsed, locale) ==
  IF ~parsed.success THEN throwInvalidParams(parsed.issues)
  ELSE stdioCallClient(parsed.data, locale)

stdioHandlerStart(raw, locale) == stdioAfterParse(safeParse(raw), locale)

\* the handler of tool s[2] of server s[1]
serverStart(s, raw, locale) ==
  IF s[1] = "stdio" THEN stdioHandlerStart(raw, locale)
  ELSE handlerStart(raw, locale, s[2])

(***************************************************************************)
(* The inputs of the model.                                                *)
(***************************************************************************)
cats == <<"c", "a", "t", "s">>
jsonCats == <<"{", "\"", "q", "u", "e", "r", "y", "\"", ":", "\"">> \o cats \o <<"\"", "}">>

\* {"query":" cats "} and {"query":" "}
jsonBlankCats ==
  <<"{", "\"", "q", "u", "e", "r", "y", "\"", ":", "\"", " ">> \o cats \o <<" ", "\"", "}">>
jsonBlank == <<"{", "\"", "q", "u", "e", "r", "y", "\"", ":", "\"", " ", "\"", "}">>

Pad(l, s, r) == Rep(" ", l) \o s \o Rep(" ", r)
Padded(texts) == {Pad(l, s, r) : l \in {0, MaxPad}, s \in texts, r \in {0, MaxPad}}

Payload(kind, query, orientation, safesearch, per_page, extraKeys) ==
  [kind |-> kind, query |-> query, orientation |-> orientation,
   safesearch |-> safesearch, per_page |-> per_page, extraKeys |-> extraKeys]

NoPayload ==
  Payload(Undefined, QueryValue(Undefined, <<>>), OrientationValue(Undefined, ""),
          BooleanValue(Undefined, FALSE), NumberValue(Undefined, 0), <<>>)

QueryTexts ==
  {<<>>, cats, jsonCats, Rep("a", maxQueryLength), Rep("a", maxQueryLength + 1)}
QueryValues ==
  {QueryValue("string", s) : s \in Padded(QueryTexts)}
  \cup {QueryValue(Undefined, <<>>), QueryValue("number", <<>>)}
OrientationValues ==
  {OrientationValue(Undefined, ""), OrientationValue("string", "vertical"),
   OrientationValue("string", "diagonal"), OrientationValue("null", "")}
SafesearchValues ==
  {BooleanValue(Undefined, FALSE), BooleanValue("boolean", FALSE),
   BooleanValue("string", FALSE)}
PerPageValues ==
  {NumberValue(Undefined, 0), NumberValue("string", 0),
   NumberValue("number", Num(minPerPage) - 1), NumberValue("number", Num(minPerPage) + 1),
   NumberValue("number", Num(maxPerPage)), NumberValue("number", Num(maxPerPage) + 2)}
ExtraKeys == {<<>>, <<"page">>}

\* every combination of a few values of each field
ProductPayloads ==
  {Payload("object", q, o, s, n, x) :
     q \in QueryValues, o \in OrientationValues, s \in SafesearchValues,
     n \in PerPageValues, x \in ExtraKeys}

\* one field swept over its range, the others valid
PerPageSweep ==
  {Payload("object", QueryValue("string", cats), OrientationValue(Undefined, ""),
           BooleanValue(Undefined, FALSE), NumberValue("number", h), <<>>) :
     h \in (0 - 2)..(Num(maxPerPage + PerPageSlack) + 1)}
QuerySweep ==
  {Payload("object", QueryValue("string", Rep("a", n)), OrientationValue("string", o),
           BooleanValue("boolean", TRUE), NumberValue(Undefined, 0), <<>>) :
     n \in 1..2 \cup (maxQueryLength - 1)..(maxQueryLength + 2),
     o \in {"all", "horizontal"}}
OtherPayloads ==
  {[NoPayload EXCEPT !.kind = k] : k \in {Undefined, "null", "string", "array"}}
  \cup {Payload("object", QueryValue("string", cats), OrientationValue(Undefined, ""),
                BooleanValue(Undefined, FALSE), NumberValue(Undefined, 0),
                <<"page", "lang">>)}

\* queries that hold a JSON text
JsonQueries ==
  {Payload("object", QueryValue("string", q), OrientationValue(Undefined, ""),
           BooleanValue(Undefined, FALSE), NumberValue(Undefined, 0), <<>>) :
     q \in Padded({jsonBlankCats, jsonBlank})}

Payloads ==
  ProductPayloads \cup PerPageSweep \cup QuerySweep \cup OtherPayloads \cup JsonQueries

Metas ==
  {NoMeta,
   Meta(LocaleValue("string", <<"p", "t", "-", "B", "R">>), LocaleValue(Undefined, <<>>)),
   Meta(LocaleValue(Undefined, <<>>), LocaleValue("string", <<"f", "r">>)),
   Meta(LocaleValue("string", <<>>), LocaleValue("string", <<"f", "r">>))}

\* the servers and their tools
Tools ==
  {<<"stdio", "images">>, <<"imageOnly", "images">>,
   <<"combined", "images">>, <<"combined", "videos">>}

Statuses == {200, 401, 403, 429, 500}
statusText(status) ==
  CASE status = 200 -> "OK"
    [] status = 401 -> "Unauthorized"
    [] status = 403 -> "Forbidden"
    [] status = 429 -> "Too Many Requests"
    [] OTHER -> "Internal Server Error"

Headers(limit, remaining, reset) == [limit |-> limit, remaining |-> remaining, reset |-> reset]
HeaderSets ==
  {Headers(NoHeader, NoHeader, NoHeader),
   Headers(HeaderValue("string", <<"1", "0", "0">>), HeaderValue("string", <<"a">>),
           HeaderValue("string", <<"6", "0">>)),
   Headers(HeaderValue("string", <<"a">>), HeaderValue("string", <<"5">>),
           HeaderValue("string", <<>>))}

NoResponse == [status |-> 0, statusText |-> "", headers |-> Headers(NoHeader, NoHeader, NoHeader)]
Response(status, headers) ==
  [status |-> status, statusText |-> statusText(status), headers |-> headers]

ErrorTexts == {<<>>, <<" ">>, <<"o", "o", "p", "s", "\n">>}

RECURSIVE HitLists(_)
HitLists(n) ==
  IF n = 0 THEN {<<>>}
  ELSE HitLists(n - 1)
       \cup {Append(h, Hit(Len(h) + 1, shape)) :
               h \in {l \in HitLists(n - 1) : Len(l) = n - 1},
               shape \in {"valid", "invalid"}}

\* what response.text() did: resolved with a text, or rejected
ErrorText(readable, text) ==
  [outcome |-> IF readable THEN "resolved" ELSE "rejected", text |-> text]
NotRead == [outcome |-> "notRead", text |-> <<>>]

Body(kind, hitsIsArray, hits, totalHits) ==
  [kind |-> kind, hitsIsArray |-> hitsIsArray, hits |-> hits, totalHits |-> totalHits]
Bodies ==
  {Body("json", TRUE, h, n) : h \in HitLists(MaxHits), n \in {Unknown, Known(120)}}
  \cup {Body("json", FALSE, <<>>, Unknown), Body("null", FALSE, <<>>, Unknown),
        Body("notJson", FALSE, <<>>, Unknown)}

NoBody == Body("none", FALSE, <<>>, Unknown)

(***************************************************************************)
(* The state: one tool invocation of the server, from the call to the      *)
(* handler's return or throw.                                              *)
(***************************************************************************)
VARIABLES
  pc,             \* idle, fetching, readingBody, readingError, returned, threw
  server,         \* <<variant, tool>> of the handler invoked
  rawInput,       \* the payload of the call
  meta,           \* extra._meta
  signalAborted,  \* extra.signal.aborted
  issues,         \* parsed.error.issues, as their messages
  input,          \* normalizedInput
  request,        \* the request the fetch carries
  requests,       \* outbound HTTP requests issued by the invocation
  response,       \* the response whose headers have arrived
  error,          \* what the handler threw
  result,         \* what the handler returned
  errorText,      \* what response.text() of an error response did
  json,           \* the body response.json() read
  nqInput,        \* normalizeQuery called on its own: the argument
  nqOutput,       \* ... and what the call did
  rawHit,         \* the response mapper called on one hit: the hit
  mapped,         \* ... and what became of it
  bsInput,        \* buildSummary called on its own: the structured content
  bsOutput,       \* ... and the summary it returned
  tasks,          \* tool invocations in flight together: the state of each
  pixabayClient,  \* ... and the fields of the client instance they share
  upstream,       \* the response mapper run twice: the hits of the upstream JSON
  firstOutput,    \* ... the results of the first run
  secondOutput,   \* ... and of the second
  distFiles,      \* the widget resource: component.js and component.css on disk
  fileReads,      \* ... the two reads loadWidgetHtml awaits together
  widgetHtml,     \* ... and what loadWidgetHtml did
  toolOutput,     \* the widget: window.openai.toolOutput, as its videos
  stateFromHost,  \* ... window.openai.widgetState
  widgetState,    \* ... the copy of it useWidgetState keeps
  activeVideoId,  \* ... the component's state
  pendingEffects, \* ... the effects whose dependencies changed in the last render
  shownVideo      \* ... the video the last render gave to VideoSection

vars == <<pc, server, rawInput, meta, signalAborted, issues, input, request,
          requests, response, error, result, errorText, json, nqInput, nqOutput,
          rawHit, mapped, bsInput, bsOutput, tasks, pixabayClient,
          upstream, firstOutput, secondOutput, distFiles, fileReads, widgetHtml,
          toolOutput, stateFromHost, widgetState, activeVideoId, pendingEffects,
          shownVideo>>

invocationVars == <<pc, server, rawInput, meta, signalAborted, issues, input,
                    request, requests, response, error, result, errorText, json>>
normalizeVars == <<nqInput, nqOutput>>
mapperVars == <<rawHit, mapped>>
summaryVars == <<bsInput, bsOutput>>
concurrentVars == <<tasks, pixabayClient>>
twiceVars == <<upstream, firstOutput, secondOutput>>
resourceVars == <<distFiles, fileReads, widgetHtml>>
widgetVars ==
  <<toolOutput, stateFromHost, widgetState, activeVideoId, pendingEffects, shownVideo>>
functionVars ==
  <<normalizeVars, mapperVars, summaryVars, concurrentVars, twiceVars, resourceVars,
    widgetVars>>

NotCalled == [status |-> "notCalled", value |-> <<>>]

Idle ==
  /\ pc = "idle"
  /\ server = <<"none", "none">>
  /\ rawInput = NoPayload
  /\ meta = NoMeta
  /\ signalAborted = FALSE
  /\ issues = <<>>
  /\ input = NoInput
  /\ request = NoRequest
  /\ requests = 0
  /\ response = NoResponse
  /\ error = NoError
  /\ result = NoResult
  /\ errorText = NotRead
  /\ json = NoBody

NoHit == [kind |-> "none"]
NotMapped == [status |-> "notCalled"]

NoSummary == "<not called>"
NotRun == [status |-> "notRun", results |-> <<>>]
\* null, among video ids
Null == 0
NoToolOutput == [present |-> FALSE, videos |-> <<>>]
NullState == [present |-> FALSE, activeVideoId |-> Null]
File(kind, text) == [kind |-> kind, text |-> text]
NoFiles == [script |-> File("absent", <<>>), style |-> File("absent", <<>>)]
NotStarted == [state |-> "notStarted", value |-> [kind |-> "null", str |-> <<>>],
               error |-> ""]
NoReads == [script |-> NotStarted, style |-> NotStarted]
NotLoaded == [status |-> "notLoaded", html |-> "", error |-> ""]
\* class PixabayClient declares no field
NoFields == <<>>

\* the parts of the state that belong to the functions run on their own: all
\* of them but those of part g are at rest, and stay as they are
AtRestExcept(g) ==
  /\ IF g = "normalize" THEN TRUE ELSE nqInput = <<>> /\ nqOutput = NotCalled
  /\ IF g = "mapper" THEN TRUE ELSE rawHit = NoHit /\ mapped = NotMapped
  /\ IF g = "summary" THEN TRUE ELSE bsInput = NoContent /\ bsOutput = NoSummary
  /\ IF g = "concurrent" THEN TRUE ELSE tasks = <<>> /\ pixabayClient = NoFields
  /\ IF g = "twice" THEN TRUE
     ELSE upstream = <<>> /\ firstOutput = NotRun /\ secondOutput = NotRun
  /\ IF g = "resource" THEN TRUE
     ELSE distFiles = NoFiles /\ fileReads = NoReads /\ widgetHtml = NotLoaded
  /\ IF g = "widget" THEN TRUE
     ELSE /\ toolOutput = NoToolOutput
          /\ stateFromHost = NullState /\ widgetState = NullState
          /\ activeVideoId = Null /\ pendingEffects = {} /\ shownVideo = Null
UnchangedExcept(g) ==
  /\ IF g = "normalize" THEN TRUE ELSE UNCHANGED normalizeVars
  /\ IF g = "mapper" THEN TRUE ELSE UNCHANGED mapperVars
  /\ IF g = "summary" THEN TRUE ELSE UNCHANGED summaryVars
  /\ IF g = "concurrent" THEN TRUE ELSE UNCHANGED concurrentVars
  /\ IF g = "twice" THEN TRUE ELSE UNCHANGED twiceVars
  /\ IF g = "resource" THEN TRUE ELSE UNCHANGED resourceVars
  /\ IF g = "widget" THEN TRUE ELSE UNCHANGED widgetVars

Init ==
  /\ Idle
  /\ AtRestExcept("none")

locale == resolveLocale(meta)

\* the state the handler's first stretch leaves
Started(h) ==
  /\ pc' = h.pc
  /\ error' = h.error
  /\ issues' = h.issues
  /\ input' = h.input
  /\ request' = h.request
  /\ requests' = requests + h.sent
  /\ result' = h.result

\* the host calls a tool: the handler runs up to its first await
Invoke ==
  /\ pc = "idle"
  /\ \E s \in Tools, raw \in Payloads, m \in Metas :
       /\ server' = s
       /\ rawInput' = raw
       /\ meta' = m
       /\ Started(serverStart(s, raw, resolveLocale(m)))
  /\ UNCHANGED <<signalAborted, response, errorText, json, functionVars>>

\* fetch rejects: the network failed
FetchFails ==
  /\ pc = "fetching"
  /\ pc' = "threw"
  /\ error' = FetchFailed
  /\ UNCHANGED <<server, rawInput, meta, signalAborted, issues, input, request, requests,
                 response, result, errorText, json, functionVars>>

\* where the client goes once the response's headers are in
afterHeaders(status) == IF ok(status) THEN "readingBody" ELSE "readingError"

\* fetch resolves
ResponseArrives ==
  /\ pc = "fetching"
  /\ \E status \in Statuses, headers \in HeaderSets :
       /\ response' = Response(status, headers)
       /\ pc' = afterHeaders(status)
  /\ UNCHANGED <<server, rawInput, meta, signalAborted, issues, input, request, requests,
                 error, result, errorText, json, functionVars>>

\* the outcome of throwForErrorResponse, given what safeReadError read
Thrown(thrown) ==
  /\ pc' = IF thrown.thrown THEN "threw" ELSE "readingBody"
  /\ error' = IF thrown.thrown THEN thrown.error ELSE NoError

errorOutcome(readable, text) ==
  Thrown(throwForErrorResponse(
           response.status, safeReadError(readable, text, response.statusText)))

\* response.text() of an error response resolves, or rejects
ErrorBodyRead ==
  /\ pc = "readingError"
  /\ \E readable \in BOOLEAN, text \in ErrorTexts :
       /\ readable \/ text = <<>>
       /\ errorText' = ErrorText(readable, text)
       /\ errorOutcome(readable, text)
  /\ UNCHANGED <<server, rawInput, meta, signalAborted, issues, input, request, requests,
                 response, result, json, functionVars>>

\* the outcome of the handler, given the body response.json() read
bodyOutcome(body) ==
  IF body.kind = "notJson" THEN [pc |-> "threw", error |-> BodySyntaxError, result |-> NoResult]
  ELSE IF body.kind = "null" THEN [pc |-> "threw", error |-> BodyTypeError, result |-> NoResult]
  ELSE [pc |-> "returned", error |-> NoError,
        result |-> handlerResult(server[1], server[2], input, locale,
                     searchResult(body, extractRateLimit(response.headers)))]

Finished(outcome) ==
  /\ pc' = outcome.pc
  /\ error' = outcome.error
  /\ result' = outcome.result

\* response.json() resolves or rejects; the handler maps the body and returns
BodyRead ==
  /\ pc = "readingBody"
  /\ \E body \in Bodies : json' = body /\ Finished(bodyOutcome(body))
  /\ UNCHANGED <<server, rawInput, meta, signalAborted, issues, input, request, requests,
                 response, errorText, functionVars>>

\* the caller cancels while fetch is pending: fetch rejects with the abort
CancelFetch ==
  /\ pc = "fetching"
  /\ signalAborted' = TRUE
  /\ pc' = "threw"
  /\ error' = AbortError
  /\ UNCHANGED <<server, rawInput, meta, issues, input, request, requests, response,
                 result, errorText, json, functionVars>>

\* the caller cancels while the body is read: response.json() rejects with the abort
CancelBodyRead ==
  /\ pc = "readingBody"
  /\ signalAborted' = TRUE
  /\ pc' = "threw"
  /\ error' = AbortError
  /\ UNCHANGED <<server, rawInput, meta, issues, input, request, requests, response,
                 result, errorText, json, functionVars>>

\* the caller cancels while the error body is read: response.text() rejects with
\* the abort, which safeReadError catches
CancelErrorRead ==
  /\ pc = "readingError"
  /\ signalAborted' = TRUE
  /\ errorText' = ErrorText(FALSE, <<>>)
  /\ errorOutcome(FALSE, <<>>)
  /\ UNCHANGED <<server, rawInput, meta, issues, input, request, requests, response,
                 result, json, functionVars>>

\* the host has the outcome; the server waits for the next call
Settle ==
  /\ pc \in {"returned", "threw"}
  /\ pc' = "idle"
  /\ server' = <<"none", "none">>
  /\ rawInput' = NoPayload
  /\ meta' = NoMeta
  /\ signalAborted' = FALSE
  /\ issues' = <<>>
  /\ input' = NoInput
  /\ request' = NoRequest
  /\ requests' = 0
  /\ response' = NoResponse
  /\ error' = NoError
  /\ result' = NoResult
  /\ errorText' = NotRead
  /\ json' = NoBody
  /\ UNCHANGED functionVars

Next ==
  \/ Invoke
  \/ FetchFails
  \/ ResponseArrives
  \/ ErrorBodyRead
  \/ BodyRead
  \/ CancelFetch
  \/ CancelBodyRead
  \/ CancelErrorRead
  \/ Settle

Spec == Init /\ [][Next]_vars

(***************************************************************************)
(* The image mapper on its own: one raw hit, a well-formed hit in which up *)
(* to MaxOddFields fields hold any kind of value.                          *)
(***************************************************************************)
WellFormedImageHit ==
  [id |-> "number", pageURL |-> "httpUrl", previewURL |-> "httpUrl",
   webformatURL |-> "httpUrl", imageWidth |-> "number", imageHeight |-> "number",
   tags |-> "text", user |-> "text", user_id |-> "number",
   userImageURL |-> "httpUrl", likes |-> "number", downloads |-> "number",
   unknownKey |-> Undefined]

RECURSIVE OddHits(_, _)
OddHits(hit, n) ==
  IF n = 0 THEN {hit}
  ELSE OddHits(hit, n - 1)
       \cup {[h EXCEPT ![k] = v] :
               h \in OddHits(hit, n - 1), k \in DOMAIN hit, v \in FieldKinds}

ImageHits == OddHits(WellFormedImageHit, MaxOddFields)

InitImageHit ==
  /\ Idle
  /\ AtRestExcept("mapper")
  /\ rawHit \in ImageHits /\ mapped = NotMapped

MapImageHit ==
  /\ mapped = NotMapped
  /\ mapped' = mapImageHit(rawHit)
  /\ UNCHANGED <<invocationVars, rawHit>>
  /\ UnchangedExcept("mapper")

NextImageHit == MapImageHit

SpecImageHit == InitImageHit /\ [][NextImageHit]_vars

(***************************************************************************)
(* Invocations in flight together.  Each has the state of one invocation;  *)
(* all of them call the one PixabayClient instance of the module, and each *)
(* step of a handler, from one await to the next, is one step here.        *)
(***************************************************************************)
TaskIds == 1..MaxTasks

Task(pc_, server_, rawInput_, meta_, h) ==
  [pc |-> pc_, server |-> server_, rawInput |-> rawInput_, meta |-> meta_,
   input |-> h.input, request |-> h.request, response |-> NoResponse,
   errorText |-> NotRead, json |-> NoBody, error |-> h.error, result |-> h.result]

NoTask ==
  Task("idle", <<"none", "none">>, NoPayload, NoMeta,
       [input |-> NoInput, request |-> NoRequest, error |-> NoError, result |-> NoResult])

\* a call of a method of the shared client with a locale: the locale the call
\* works with and the fields of the client after it, which a client that
\* kept the first locale it saw would change
clientCall_keepsFirstLocale(client, locale_) ==
  IF client = NoFields THEN [client |-> <<locale_>>, locale |-> locale_]
  ELSE [client |-> client, locale |-> client[1]]

\* a call of a method of the shared client with a locale: the locale the call
\* works with and the fields of the client after it
clientCall(client, locale_) == [client |-> client, locale |-> locale_]

\* the handler of tool s[2] of server s[1] up to its first await, calling the
\* client in the state it is in
taskStart(client, s, raw, m) ==
  Task(serverStart(s, raw, clientCall(client, resolveLocale(m)).locale).pc, s, raw, m,
       serverStart(s, raw, clientCall(client, resolveLocale(m)).locale))

clientAfter(client, started, locale_) ==
  IF started.pc = "fetching" THEN clientCall(client, locale_).client ELSE client

\* fetch resolves
taskResponse(t, r) == [t EXCEPT !.pc = afterHeaders(r.status), !.response = r]

\* response.text() of the error response settles and throwForErrorResponse throws
taskError(t, readable, text, thrown) ==
  [t EXCEPT !.pc = IF thrown.thrown THEN "threw" ELSE "readingBody",
            !.error = IF thrown.thrown THEN thrown.error ELSE NoError,
            !.errorText = ErrorText(readable, text)]

\* response.json() settles; the handler maps the body and returns
taskBody(t, body) ==
  IF body.kind = "notJson"
  THEN [t EXCEPT !.pc = "threw", !.error = BodySyntaxError, !.json = body]
  ELSE IF body.kind = "null"
  THEN [t EXCEPT !.pc = "threw", !.error = BodyTypeError, !.json = body]
  ELSE [t EXCEPT !.pc = "returned", !.json = body,
                 !.result = handlerResult(t.server[1], t.server[2], t.input,
                              resolveLocale(t.meta),
                              searchResult(body, extractRateLimit(t.response.headers)))]

catsPayload ==
  Payload("object", QueryValue("string", cats), OrientationValue(Undefined, ""),
          BooleanValue(Undefined, FALSE), NumberValue(Undefined, 0), <<>>)

\* the calls, responses and bodies of the invocations in flight together
ConcurrentCalls ==
  {<<<<"combined", "images">>, catsPayload, NoMeta>>,
   <<<<"combined", "videos">>, [catsPayload EXCEPT !.per_page = NumberValue("number", Num(maxPerPage))],
     Meta(LocaleValue("string", <<"p", "t", "-", "B", "R">>), LocaleValue(Undefined, <<>>))>>,
   <<<<"imageOnly", "images">>, [catsPayload EXCEPT !.query = QueryValue("string", jsonCats)],
     Meta(LocaleValue(Undefined, <<>>), LocaleValue("string", <<"f", "r">>))>>,
   <<<<"combined", "images">>, [catsPayload EXCEPT !.query = QueryValue("string", <<>>)],
     NoMeta>>}
ConcurrentResponses ==
  {Response(200, Headers(HeaderValue("string", <<"1", "0", "0">>), NoHeader, NoHeader)),
   Response(429, Headers(NoHeader, NoHeader, NoHeader))}
ConcurrentBodies ==
  {Body("json", TRUE, <<Hit(1, "valid"), Hit(2, "invalid")>>, Known(120)),
   Body("notJson", FALSE, <<>>, Unknown)}

InitConcurrent ==
  /\ Idle
  /\ AtRestExcept("concurrent")
  /\ tasks = [i \in TaskIds |-> NoTask]
  /\ pixabayClient = NoFields

\* the host calls a tool while other calls may be in flight
TaskInvoke(i) ==
  /\ tasks[i].pc = "idle"
  /\ \E c \in ConcurrentCalls :
       /\ tasks' = [tasks EXCEPT ![i] = taskStart(pixabayClient, c[1], c[2], c[3])]
       /\ pixabayClient' = clientAfter(pixabayClient,
                                       taskStart(pixabayClient, c[1], c[2], c[3]),
                                       resolveLocale(c[3]))

TaskResponseArrives(i) ==
  /\ tasks[i].pc = "fetching"
  /\ \E r \in ConcurrentResponses : tasks' = [tasks EXCEPT ![i] = taskResponse(tasks[i], r)]
  /\ UNCHANGED pixabayClient

TaskErrorBodyRead(i) ==
  /\ tasks[i].pc = "readingError"
  /\ \E readable \in BOOLEAN :
       tasks' = [tasks EXCEPT ![i] =
                   taskError(tasks[i], readable, <<>>,
                             throwForErrorResponse(
                               tasks[i].response.status,
                               safeReadError(readable, <<>>, tasks[i].response.statusText)))]
  /\ UNCHANGED pixabayClient

TaskBodyRead(i) ==
  /\ tasks[i].pc = "readingBody"
  /\ \E body \in ConcurrentBodies : tasks' = [tasks EXCEPT ![i] = taskBody(tasks[i], body)]
  /\ UNCHANGED pixabayClient

NextConcurrent ==
  /\ \E i \in TaskIds :
       \/ TaskInvoke(i)
       \/ TaskResponseArrives(i)
       \/ TaskErrorBodyRead(i)
       \/ TaskBodyRead(i)
  /\ UNCHANGED invocationVars
  /\ UnchangedExcept("concurrent")

SpecConcurrent == InitConcurrent /\ [][NextConcurrent]_vars

(***************************************************************************)
(* The response mapper run twice on one upstream JSON.                     *)
(***************************************************************************)
TaggedHit(id, shape, tags) == [id |-> id, shape |-> shape, tags |-> tags]

TagTexts ==
  {<<>>, <<"a">>, <<"b", ",", "a">>, <<"a", ",", " ", "b">>, <<"a", ",", "a">>,
   <<" ", ",", "b", ",", ",", "a", " ">>}

RECURSIVE TaggedHitLists(_)
TaggedHitLists(n) ==
  IF n = 0 THEN {<<>>}
  ELSE TaggedHitLists(n - 1)
       \cup {Append(h, TaggedHit(Len(h) + 1, shape, tags)) :
               h \in {l \in TaggedHitLists(n - 1) : Len(l) = n - 1},
               shape \in {"valid", "invalid"}, tags \in TagTexts}

Ran(results) == [status |-> "ran", results |-> results]

InitTwice ==
  /\ Idle
  /\ AtRestExcept("twice")
  /\ upstream \in TaggedHitLists(MaxHits)
  /\ firstOutput = NotRun /\ secondOutput = NotRun

MapFirst ==
  /\ firstOutput = NotRun
  /\ firstOutput' = Ran(taggedResults(upstream))
  /\ UNCHANGED <<invocationVars, upstream, secondOutput>>
  /\ UnchangedExcept("twice")

MapSecond ==
  /\ firstOutput # NotRun /\ secondOutput = NotRun
  /\ secondOutput' = Ran(taggedResults(upstream))
  /\ UNCHANGED <<invocationVars, upstream, firstOutput>>
  /\ UnchangedExcept("twice")

NextTwice == MapFirst \/ MapSecond

SpecTwice == InitTwice /\ [][NextTwice]_vars

(***************************************************************************)
(* index.ts: the widget resource.  A file of web/dist is absent (readFile  *)
(* fails with ENOENT), unreadable (readFile fails otherwise) or has a      *)
(* text.  loadWidgetHtml awaits the two reads together: it rejects with    *)
(* the first read to reject and resolves once both have resolved.          *)
(***************************************************************************)
Pending == [state |-> "pending", value |-> [kind |-> "null", str |-> <<>>], error |-> ""]
Fulfilled(kind, str) ==
  [state |-> "fulfilled", value |-> [kind |-> kind, str |-> str], error |-> ""]
Rejected(error_) ==
  [state |-> "rejected", value |-> [kind |-> "null", str |-> <<>>], error |-> error_]

MsgMissingArtifact ==
  "Missing build artifact at web/dist/component.js. Please run \"npm run build\" in app/web before starting the server."
MsgReadFailed == "EACCES: permission denied"

readFileOrThrow(file) ==
  IF file.kind = "absent" THEN Rejected(MsgMissingArtifact)
  ELSE IF file.kind = "unreadable" THEN Rejected(MsgReadFailed)
  ELSE Fulfilled("string", file.text)

\* a readFileOptional that does not tell ENOENT from other failures
readFileOptional_rethrowsAll(file) ==
  IF file.kind \in {"absent", "unreadable"} THEN Rejected(MsgReadFailed)
  ELSE Fulfilled("string", file.text)

readFileOptional(file) ==
  IF file.kind = "absent" THEN Fulfilled("null", <<>>)
  ELSE IF file.kind = "unreadable" THEN Rejected(MsgReadFailed)
  ELSE Fulfilled("string", file.text)

\* the template of loadWidgetHtml, trimmed
widgetTemplate(scriptSource, styleSource) ==
  "<!doctype html>\n<html lang=\"en\">\n  <head>\n    <meta charset=\"utf-8\" />\n"
  \o "    <meta name=\"viewport\" content=\"width=device-width, initial-scale=1\" />\n"
  \o "    <title>Pixabay Image Gallery</title>\n    "
  \o (IF styleSource.kind = "string" /\ styleSource.str # <<>>
      THEN "<style>" \o Str(styleSource.str) \o "</style>" ELSE "")
  \o "\n  </head>\n  <body>\n    <div id=\"pixabay-gallery-root\"></div>\n"
  \o "    <script type=\"module\">\n" \o Str(scriptSource.str)
  \o "\n    </script>\n  </body>\n</html>"

\* what loadWidgetHtml has done once `settled` has joined the reads `others`
loadWidgetHtml(before, scriptRead, styleRead, settled) ==
  IF before.status # "loading" THEN before
  ELSE IF settled.state = "rejected"
  THEN [status |-> "threw", html |-> "", error |-> settled.error]
  ELSE IF scriptRead.state = "fulfilled" /\ styleRead.state = "fulfilled"
  THEN [status |-> "returned", error |-> "",
        html |-> widgetTemplate(scriptRead.value, styleRead.value)]
  ELSE before

ScriptFiles ==
  {File("absent", <<>>), File("unreadable", <<>>), File("text", <<>>),
   File("text", <<"r", "u", "n", "(", ")">>), File("text", <<"g", "o", "(", ")">>)}
StyleFiles ==
  {File("absent", <<>>), File("unreadable", <<>>), File("text", <<>>),
   File("text", <<" ">>), File("text", <<"b", "{", "}">>)}

InitResource ==
  /\ Idle
  /\ AtRestExcept("resource")
  /\ distFiles \in [script : ScriptFiles, style : StyleFiles]
  /\ fileReads = NoReads
  /\ widgetHtml = NotLoaded

\* the host reads the resource: both reads are started
ReadResource ==
  /\ widgetHtml.status = "notLoaded"
  /\ fileReads' = [script |-> Pending, style |-> Pending]
  /\ widgetHtml' = [widgetHtml EXCEPT !.status = "loading"]
  /\ UNCHANGED <<invocationVars, distFiles>>
  /\ UnchangedExcept("resource")

ScriptReadSettles ==
  /\ fileReads.script.state = "pending"
  /\ fileReads' = [fileReads EXCEPT !.script = readFileOrThrow(distFiles.script)]
  /\ widgetHtml' = loadWidgetHtml(widgetHtml, readFileOrThrow(distFiles.script),
                                  fileReads.style, readFileOrThrow(distFiles.script))
  /\ UNCHANGED <<invocationVars, distFiles>>
  /\ UnchangedExcept("resource")

StyleReadSettles ==
  /\ fileReads.style.state = "pending"
  /\ fileReads' = [fileReads EXCEPT !.style = readFileOptional(distFiles.style)]
  /\ widgetHtml' = loadWidgetHtml(widgetHtml, fileReads.script,
                                  readFileOptional(distFiles.style),
                                  readFileOptional(distFiles.style))
  /\ UNCHANGED <<invocationVars, distFiles>>
  /\ UnchangedExcept("resource")

NextResource == ReadResource \/ ScriptReadSettles \/ StyleReadSettles

SpecResource == InitResource /\ [][NextResource]_vars

(***************************************************************************)
(* The widget's video selection.  A video is its id.  An event of the host *)
(* or a click changes state and the component renders at once; the effects *)
(* whose dependencies changed run after the render, one at a time, and     *)
(* each of them renders again.                                             *)
(***************************************************************************)
VideoIds == 1..(MaxVideos + 1)

ToolOutput(videos) == [present |-> TRUE, videos |-> videos]
WidgetState(id) == [present |-> TRUE, activeVideoId |-> id]

\* const videos = toolOutput?.videos ?? []
videosOf(output) == IF output.present THEN output.videos ELSE <<>>

\* videos.find((video) => video.id === activeId)
RECURSIVE find(_, _)
find(videos, id) ==
  IF videos = <<>> THEN Null
  ELSE IF Head(videos) = id THEN Head(videos)
  ELSE find(Tail(videos), id)

\* a selectedVideo that keeps the active id whether or not the list has it
selectedVideo_keepsActiveId(videos, activeId) ==
  IF videos = <<>> THEN Null
  ELSE IF activeId # Null THEN activeId
  ELSE videos[1]

\* the useMemo of selectedVideo
selectedVideo(videos, activeId) ==
  IF videos = <<>> THEN Null
  ELSE IF activeId # Null /\ find(videos, activeId) # Null THEN find(videos, activeId)
  ELSE videos[1]

\* hasVideos && selectedVideo ? <VideoSection selectedVideo=... /> : null
render(output, activeId) == selectedVideo(videosOf(output), activeId)

\* ensureWidgetState(prev), then the new active id
selectState(prev, id) == WidgetState(id)

\* widgetState?.activeVideoId ?? (videos.length > 0 ? videos[0]?.id ?? null : null)
nextId(state, videos) ==
  IF state.present /\ state.activeVideoId # Null THEN state.activeVideoId
  ELSE IF videos # <<>> THEN videos[1]
  ELSE Null

RECURSIVE VideoLists(_)
VideoLists(n) ==
  IF n = 0 THEN {<<>>}
  ELSE VideoLists(n - 1)
       \cup {Append(l, id) : l \in {v \in VideoLists(n - 1) : Len(v) = n - 1},
                             id \in VideoIds}
WidgetStates == {NullState} \cup {WidgetState(id) : id \in VideoIds \cup {Null}}

\* the component is mounted: no tool output yet, both effects to run
InitWidget ==
  /\ Idle
  /\ AtRestExcept("widget")
  /\ toolOutput = NoToolOutput
  /\ stateFromHost \in WidgetStates
  /\ widgetState = stateFromHost
  /\ activeVideoId = Null
  /\ pendingEffects = {"widgetState", "activeVideoId"}
  /\ shownVideo = render(toolOutput, activeVideoId)

\* the host sets toolOutput
ToolOutputChanges ==
  /\ \E vs \in VideoLists(MaxVideos) :
       /\ toolOutput' = ToolOutput(vs)
       /\ shownVideo' = render(ToolOutput(vs), activeVideoId)
  /\ toolOutput' # toolOutput
  /\ pendingEffects' = pendingEffects \cup {"activeVideoId"}
  /\ UNCHANGED <<stateFromHost, widgetState, activeVideoId>>

\* the host sets widgetState
HostUpdatesWidgetState ==
  /\ \E ws \in WidgetStates : stateFromHost' = ws
  /\ stateFromHost' # stateFromHost
  /\ pendingEffects' = pendingEffects \cup {"widgetState"}
  /\ UNCHANGED <<toolOutput, widgetState, activeVideoId, shownVideo>>

\* a click on the thumbnail of a video of the list: handleVideoSelect
SelectThumbnail ==
  /\ shownVideo # Null
  /\ \E i \in 1..Len(videosOf(toolOutput)) :
       /\ activeVideoId' = videosOf(toolOutput)[i]
       /\ widgetState' = selectState(widgetState, videosOf(toolOutput)[i])
       /\ shownVideo' = render(toolOutput, videosOf(toolOutput)[i])
  /\ pendingEffects' =
       IF widgetState'.activeVideoId # widgetState.activeVideoId
       THEN pendingEffects \cup {"activeVideoId"} ELSE pendingEffects
  /\ UNCHANGED <<toolOutput, stateFromHost>>

\* useEffect(() => setWidgetStateLocal(stateFromHost), [stateFromHost])
WidgetStateEffect ==
  /\ "widgetState" \in pendingEffects
  /\ widgetState' = stateFromHost
  /\ pendingEffects' =
       IF stateFromHost.activeVideoId # widgetState.activeVideoId
       THEN (pendingEffects \ {"widgetState"}) \cup {"activeVideoId"}
       ELSE pendingEffects \ {"widgetState"}
  /\ UNCHANGED <<toolOutput, stateFromHost, activeVideoId, shownVideo>>

\* the effect that sets activeVideoId to nextId
ActiveVideoIdEffect ==
  /\ "activeVideoId" \in pendingEffects
  /\ activeVideoId' = nextId(widgetState, videosOf(toolOutput))
  /\ shownVideo' = render(toolOutput, nextId(widgetState, videosOf(toolOutput)))
  /\ pendingEffects' = pendingEffects \ {"activeVideoId"}
  /\ UNCHANGED <<toolOutput, stateFromHost, widgetState>>

NextWidget ==
  /\ \/ ToolOutputChanges
     \/ HostUpdatesWidgetState
     \/ SelectThumbnail
     \/ WidgetStateEffect
     \/ ActiveVideoIdEffect
  /\ UNCHANGED invocationVars
  /\ UnchangedExcept("widget")

SpecWidget == InitWidget /\ [][NextWidget]_vars

(***************************************************************************)
(* buildSummary on its own: a structured content with any two counts.      *)
(***************************************************************************)
Contents ==
  {[NoContent EXCEPT !.variant = "combined", !.query = q,
                     !.imageCount = i, !.videoCount = v] :
     q \in {cats, <<"a">>, <<"a", " ", "b">>, Rep("a", maxQueryLength)},
     i \in 0..MaxCount, v \in 0..MaxCount}

InitSummary ==
  /\ Idle
  /\ AtRestExcept("summary")
  /\ bsInput \in Contents /\ bsOutput = NoSummary

CallBuildSummary ==
  /\ bsOutput = NoSummary
  /\ bsOutput' = buildSummary(bsInput)
  /\ UNCHANGED <<invocationVars, bsInput>>
  /\ UnchangedExcept("summary")

NextSummary == CallBuildSummary

SpecSummary == InitSummary /\ [][NextSummary]_vars

(***************************************************************************)
(* The video mapper on its own: one raw hit with any four renditions.      *)
(***************************************************************************)
UrlKinds == {"httpUrl", "paddedHttpUrl", "otherUrl", "emptyString", "text"}
ThumbnailKinds == {Undefined, "httpUrl", "otherUrl", "emptyString"}
Renditions ==
  {NoRendition} \cup {Rendition(u, t) : u \in UrlKinds, t \in ThumbnailKinds}
VideoHits ==
  {VideoHit(m, l, sm, t, "valid") : m, l, sm, t \in Renditions}
  \cup {VideoHit(m, NoRendition, NoRendition, NoRendition, "invalid") : m \in Renditions}

InitVideoHit ==
  /\ Idle
  /\ AtRestExcept("mapper")
  /\ rawHit \in VideoHits /\ mapped = NotMapped

MapVideoHit ==
  /\ mapped = NotMapped
  /\ mapped' = mapVideoHit(rawHit)
  /\ UNCHANGED <<invocationVars, rawHit>>
  /\ UnchangedExcept("mapper")

NextVideoHit == MapVideoHit

SpecVideoHit == InitVideoHit /\ [][NextVideoHit]_vars

(***************************************************************************)
(* normalizeQuery on its own: called once on any text of NormalizeInputs.  *)
(***************************************************************************)
quoted(s) == <<"\"">> \o s \o <<"\"">>
member(key, value) == quoted(key) \o <<":">> \o value
object(members) == <<"{">> \o members \o <<"}">>
array(elements) == <<"[">> \o elements \o <<"]">>

JsonSamples ==
  {jsonCats,
   object(member(queryKey, quoted(Pad(1, cats, 1)))),
   object(member(queryKey, quoted(<<>>))),
   object(member(queryKey, quoted(<<" ">>))),
   object(member(queryKey, quoted(<<"\\", "u", "0", "0", "2", "0">>))),
   object(member(queryKey, quoted(<<"c", "\\", "\"", "t">>))),
   object(member(queryKey, <<"1">>)),
   object(member(queryKey, <<"n", "u", "l", "l">>)),
   object(member(queryKey, jsonCats)),
   object(member(queryKey, array(quoted(cats)))),
   object(member(<<"q">>, quoted(cats))),
   object(member(<<"a">>, jsonCats)),
   object(member(queryKey, quoted(<<"a">>)) \o <<",">> \o member(queryKey, quoted(<<"b">>))),
   object(member(queryKey, quoted(cats)) \o <<",">> \o member(queryKey, <<"1">>)),
   object(<<" ">> \o member(queryKey, <<" ">> \o quoted(cats) \o <<" ">>)),
   array(quoted(cats)),
   array(jsonCats),
   array(<<"1", ",", "-", "2", ".", "5", "e", "3", ",", "t", "r", "u", "e">>),
   quoted(cats),
   cats,
   cats \o <<" ", "{", "}">>,
   <<"n", "o", "t", " ", "j", "s", "o", "n", " ", "{">>,
   <<"{", "n", "o", "t", " ", "j", "s", "o", "n", "}">>,
   <<"{">> \o member(queryKey, quoted(cats)) \o <<"]">>,
   jsonCats \o <<"}">>}

\* the text with its i-th character left out
Without(s, i) == SubSeq(s, 1, i - 1) \o SubSeq(s, i + 1, Len(s))
Damaged(texts) == UNION {{Without(s, i) : i \in 1..Len(s)} : s \in texts}

RawAlphabet == {"{", "}", "[", "]", "\"", " ", "a", ":", ",", "1"}

RECURSIVE Texts(_)
Texts(n) ==
  IF n = 0 THEN {<<>>}
  ELSE Texts(n - 1)
       \cup {Append(s, c) : s \in {x \in Texts(n - 1) : Len(x) = n - 1}, c \in RawAlphabet}

NormalizeInputs ==
  Texts(MaxRawLen) \cup Padded(JsonSamples \cup Damaged(JsonSamples))

InitNormalize ==
  /\ Idle
  /\ AtRestExcept("normalize")
  /\ nqInput \in NormalizeInputs /\ nqOutput = NotCalled

CallNormalizeQuery ==
  /\ nqOutput = NotCalled
  /\ nqOutput' = normalizeQuery(nqInput)
  /\ UNCHANGED <<invocationVars, nqInput>>
  /\ UnchangedExcept("normalize")

NextNormalize == CallNormalizeQuery

SpecNormalize == InitNormalize /\ [][NextNormalize]_vars

(***************************************************************************)
(* The claims.                                                             *)
(***************************************************************************)
Invoked == pc # "idle"
Settled == pc \in {"returned", "threw"}
ThrewInvalidParams ==
  pc = "threw" /\ error.name = "McpError" /\ error.code = "InvalidParams"
Range(seq) == {seq[i] : i \in 1..Len(seq)}

\* the request schema, field by field, as the specification words it
QueryOk(raw) ==
  /\ raw.query.kind = "string"
  /\ Len(trim(raw.query.str)) >= 1
  /\ Len(trim(raw.query.str)) <= 100
OrientationOk(raw) ==
  \/ raw.orientation.kind = Undefined
  \/ raw.orientation.kind = "string"
     /\ raw.orientation.str \in {"all", "horizontal", "vertical"}
SafesearchOk(raw) == raw.safesearch.kind \in {Undefined, "boolean"}
PerPageOk(raw) ==
  \/ raw.per_page.kind = Undefined
  \/ /\ raw.per_page.kind = "number"
     /\ IsInteger(raw.per_page.num)
     /\ raw.per_page.num >= Num(3)
     /\ raw.per_page.num <= Num(20)
NoExtraFields(raw) == raw.extraKeys = <<>>
MatchesSchema(raw) ==
  /\ raw.kind = "object"
  /\ QueryOk(raw) /\ OrientationOk(raw) /\ SafesearchOk(raw) /\ PerPageOk(raw)
  /\ NoExtraFields(raw)

\* C1: in every invocation of the image or the video tool, a payload that fails
\* the request schema ends in an InvalidParams failure and no outbound request
\* is issued for it.
C1_ValidationBeforeAnyRequest ==
  (Invoked /\ ~MatchesSchema(rawInput))
    => (ThrewInvalidParams /\ requests = 0 /\ request = NoRequest)

C1_Witness ==
  /\ ThrewInvalidParams
  /\ server[2] = "videos"
  /\ rawInput.kind = "object"
  /\ requests = 0

\* C2: when validation fails or the upstream answers with a non-success status,
\* the invocation ends with the error alone: no summary, no structured content,
\* no metadata.  A result is returned only for a valid payload and a success
\* status.
C2_FailureCarriesNoResult ==
  /\ (pc # "returned") => (result = NoResult)
  /\ (Settled /\ ~MatchesSchema(rawInput)) => (pc = "threw" /\ error # NoError)
  /\ (Settled /\ response # NoResponse /\ ~ok(response.status))
       => (pc = "threw" /\ error # NoError)
  /\ (pc = "returned") => (error = NoError /\ result.present)

C2_Witness ==
  /\ pc = "threw"
  /\ response.status = 500
  /\ error.code = "InternalError"
  /\ result = NoResult

\* C3: no retry.  Whatever the upstream does, an invocation issues at most one
\* outbound request, and every non-success status ends the invocation in a
\* failure.
C3_NoRetry ==
  /\ requests <= 1
  /\ (pc \in {"fetching", "readingBody", "readingError"}) => (requests = 1)
  /\ (Settled /\ response # NoResponse /\ ~ok(response.status))
       => (pc = "threw" /\ error.name = "McpError" /\ ~result.present)
  /\ (pc = "readingBody") => ok(response.status)

C3_Witness ==
  /\ pc = "threw"
  /\ response.status = 429
  /\ requests = 1
  /\ error.message = MsgRateLimited

\* C4: when the caller's cancellation signal fires while the upstream request
\* is in flight, the invocation ends without a result and what it throws is the
\* cancellation (the abort), not an upstream failure.
C4_CancelPropagatesCancelled ==
  signalAborted => (pc = "threw" /\ error = AbortError /\ result = NoResult)

\* C5: a query whose trimmed length is 1 to 100 passes validation when the
\* other fields are valid; a query whose trimmed length is 0 or above 100 fails
\* it, and the issues name the query's length.
C5_QueryLength ==
  (Invoked /\ rawInput.kind = "object" /\ rawInput.query.kind = "string")
    => /\ (MatchesSchema([rawInput EXCEPT !.query.str = <<"a">>])
           /\ Len(trim(rawInput.query.str)) \in 1..100)
            => (~ThrewInvalidParams /\ requests = 1)
       /\ (Len(trim(rawInput.query.str)) = 0)
            => (ThrewInvalidParams /\ MsgQueryMin \in Range(issues))
       /\ (Len(trim(rawInput.query.str)) > 100)
            => (ThrewInvalidParams /\ MsgQueryMax \in Range(issues))

C5_Witness ==
  /\ pc = "fetching"
  /\ Len(rawInput.query.str) > 100
  /\ Len(trim(rawInput.query.str)) = 100

\* C6: a per_page that is not an integer or lies outside [3,20] fails
\* validation; an integer per_page in [3,20], or none, passes it when the other
\* fields are valid; no upstream request carries a per_page outside [3,20].
C6_PerPageBounds ==
  /\ (Invoked /\ rawInput.kind = "object" /\ rawInput.per_page.kind = "number")
       => /\ (~PerPageOk(rawInput)) => (ThrewInvalidParams /\ requests = 0)
          /\ (PerPageOk(rawInput)
              /\ MatchesSchema([rawInput EXCEPT !.per_page = NumberValue(Undefined, 0)]))
               => (~ThrewInvalidParams /\ request.per_page = rawInput.per_page.num)
  /\ (Invoked /\ MatchesSchema(rawInput) /\ rawInput.per_page.kind = Undefined)
       => ~ThrewInvalidParams
  /\ (request # NoRequest)
       => /\ IsInteger(request.per_page)
          /\ request.per_page >= Num(3)
          /\ request.per_page <= Num(20)

C6_Witness ==
  /\ ThrewInvalidParams
  /\ rawInput.per_page.kind = "number"
  /\ rawInput.per_page.num = Num(20) + 2
  /\ MatchesSchema([rawInput EXCEPT !.per_page = NumberValue(Undefined, 0)])

\* C7: the request schema is strict.  A payload with a field other than query,
\* orientation, safesearch and per_page is rejected, and so is an orientation
\* that is present and is not all, horizontal or vertical; neither is dropped
\* or replaced by a default.
C7_StrictSchema ==
  (Invoked /\ rawInput.kind = "object"
   /\ (~NoExtraFields(rawInput) \/ ~OrientationOk(rawInput)))
    => (ThrewInvalidParams /\ requests = 0 /\ request = NoRequest)

C7_Witness ==
  /\ ThrewInvalidParams
  /\ rawInput.extraKeys # <<>>
  /\ MatchesSchema([rawInput EXCEPT !.extraKeys = <<>>])

\* the constraints a payload violates, each by the message of its violation
ViolatedConstraints(raw) ==
  IF raw.kind # "object"
  THEN {IF raw.kind = Undefined THEN MsgRequired ELSE MsgExpected("object", raw.kind)}
  ELSE {m \in {MsgRequired} : raw.query.kind = Undefined}
       \cup {m \in {MsgExpected("string", raw.query.kind)} :
               raw.query.kind \notin {Undefined, "string"}}
       \cup {m \in {MsgQueryMin} :
               raw.query.kind = "string" /\ Len(trim(raw.query.str)) = 0}
       \cup {m \in {MsgQueryMax} :
               raw.query.kind = "string" /\ Len(trim(raw.query.str)) > 100}
       \cup {m \in {MsgExpected("'all' | 'horizontal' | 'vertical'", raw.orientation.kind)} :
               raw.orientation.kind \notin {Undefined, "string"}}
       \cup {m \in {MsgBadEnum \o ", received '" \o raw.orientation.str \o "'"} :
               raw.orientation.kind = "string" /\ ~OrientationOk(raw)}
       \cup {m \in {MsgExpected("boolean", raw.safesearch.kind)} : ~SafesearchOk(raw)}
       \cup {m \in {MsgExpected("number", raw.per_page.kind)} :
               raw.per_page.kind \notin {Undefined, "number"}}
       \cup {m \in {MsgNotInteger} :
               raw.per_page.kind = "number" /\ ~IsInteger(raw.per_page.num)}
       \cup {m \in {MsgPerPageMin} :
               raw.per_page.kind = "number" /\ raw.per_page.num < Num(3)}
       \cup {m \in {MsgPerPageMax} :
               raw.per_page.kind = "number" /\ raw.per_page.num > Num(20)}
       \cup {m \in {MsgUnrecognized \o ": " \o join(quoteKeys(raw.extraKeys), ", ")} :
               ~NoExtraFields(raw)}

\* C8: a payload that violates several constraints fails with a message that
\* is one message for each violated constraint, none left out, joined by "; ".
C8_EveryViolationReported ==
  (Invoked /\ ~MatchesSchema(rawInput))
    => /\ ThrewInvalidParams
       /\ Range(issues) = ViolatedConstraints(rawInput)
       /\ Len(issues) = Cardinality(ViolatedConstraints(rawInput))
       /\ error.message = join(issues, "; ")

C8_Witness ==
  /\ ThrewInvalidParams
  /\ Len(issues) >= 4
  /\ {MsgQueryMin, MsgNotInteger, MsgPerPageMin} \subseteq Range(issues)

NormalizeCalled == nqOutput # NotCalled

HasStringQuery(parsed) ==
  parsed.ok /\ parsed.type = "object" /\ parsed.queryType = "string"

\* C10 as claimed: for a bracketed text, a parse that yields a string gives that
\* string, a parse that yields an object with a string query field gives that
\* field, and anything else gives the trimmed text.
C10_TwoRecoveryShapes ==
  (NormalizeCalled /\ looksBracketed(trim(nqInput)))
    => /\ (JSONparse(trim(nqInput)).ok /\ JSONparse(trim(nqInput)).type = "string")
            => (nqOutput.value = JSONparse(trim(nqInput)).str)
       /\ HasStringQuery(JSONparse(trim(nqInput)))
            => (nqOutput.value = JSONparse(trim(nqInput)).queryStr)
       /\ (~HasStringQuery(JSONparse(trim(nqInput)))
           /\ ~(JSONparse(trim(nqInput)).ok /\ JSONparse(trim(nqInput)).type = "string"))
            => (nqOutput.value = trim(nqInput))
       /\ (nqInput = jsonCats) => (nqOutput.value = cats)

\* C10, amended: for a bracketed text, a parse that yields an object with a
\* string query field that is not blank gives that field, trimmed; a blank
\* query field, a parse failure and every other shape give the trimmed text.
\* (A bracketed text never parses to a plain string.)
C10_TwoRecoveryShapesAmended ==
  (NormalizeCalled /\ looksBracketed(trim(nqInput)))
    => /\ ~(JSONparse(trim(nqInput)).ok /\ JSONparse(trim(nqInput)).type = "string")
       /\ (HasStringQuery(JSONparse(trim(nqInput)))
           /\ trim(JSONparse(trim(nqInput)).queryStr) # <<>>)
            => (nqOutput.value = trim(JSONparse(trim(nqInput)).queryStr))
       /\ (~HasStringQuery(JSONparse(trim(nqInput)))
           \/ trim(JSONparse(trim(nqInput)).queryStr) = <<>>)
            => (nqOutput.value = trim(nqInput))
       /\ (nqInput = jsonCats) => (nqOutput.value = cats)

C10_Witness ==
  /\ nqOutput.status = "returned"
  /\ nqInput = object(member(queryKey, quoted(Pad(1, cats, 1))))
  /\ nqOutput.value = cats

ptBR == <<"p", "t", "-", "B", "R">>

\* C11: the lang parameter of every upstream request is the resolved language
\* of the call's locale: the lower-cased part before the first "-" or "_" when
\* it is a supported language, "en" otherwise; "pt-BR" is sent as "pt".
C11_LangIsResolvedLanguage ==
  (request # NoRequest)
    => /\ request.lang =
            IF toLowerCase(primarySubtag(locale)) \in SUPPORTED_LANGS
            THEN toLowerCase(primarySubtag(locale))
            ELSE <<"e", "n">>
       /\ (locale = ptBR) => (request.lang = <<"p", "t">>)

\* C12: every upstream request carries safesearch (true when the caller gave
\* none), per_page (6 when the caller gave none) and, for an image search only,
\* image_type "photo" and orientation ("all" when the caller gave none); a video
\* search carries neither image_type nor orientation; what the caller gave is
\* sent as given.
C12_RequestDefaults ==
  (request # NoRequest)
    => /\ request.safesearch =
            IF rawInput.safesearch.kind = Undefined THEN TRUE
            ELSE rawInput.safesearch.bool
       /\ request.per_page =
            IF rawInput.per_page.kind = Undefined THEN Num(6)
            ELSE rawInput.per_page.num
       /\ (server[2] = "images")
            => /\ request.endpoint = "images"
               /\ request.image_type = "photo"
               /\ request.orientation =
                    IF rawInput.orientation.kind = Undefined THEN "all"
                    ELSE rawInput.orientation.str
       /\ (server[2] = "videos")
            => /\ request.endpoint = "videos"
               /\ request.image_type = Undefined
               /\ request.orientation = Undefined

C12_Witness ==
  /\ pc = "fetching"
  /\ server[2] = "videos"
  /\ rawInput.orientation.kind = "string"
  /\ rawInput.safesearch.kind = "boolean" /\ ~rawInput.safesearch.bool
  /\ rawInput.per_page.kind = Undefined
  /\ request.per_page = Num(6)
  /\ ~request.safesearch

\* the results the tool's response carries
Delivered ==
  IF server[1] # "combined" THEN result.structuredContent.results
  ELSE IF server[2] = "images" THEN result.structuredContent.images
  ELSE result.structuredContent.videos

Valid(hits) == SelectSeq(hits, LAMBDA h : h.shape = "valid")
Ids(hits) == [i \in 1..Len(hits) |-> [id |-> hits[i].id]]
RemoveAt(seq, k) == SubSeq(seq, 1, k - 1) \o SubSeq(seq, k + 1, Len(seq))

\* C13: for any list of image hits the results are the hits that pass
\* validation, in upstream order; with one valid hit replaced by an invalid one
\* the mapper gives the same results less that one; hits that fail validation
\* never make the invocation fail.
C13_RejectAndDrop ==
  (server[2] = "images" /\ json.kind = "json")
    => /\ pc = "returned" /\ error = NoError
       /\ Delivered = Ids(Valid(IF json.hitsIsArray THEN json.hits ELSE <<>>))
       /\ \A i \in 1..Len(json.hits) :
            (json.hits[i].shape = "valid")
              => /\ mapResults([json.hits EXCEPT ![i].shape = "invalid"])
                      = RemoveAt(Delivered, Len(Valid(SubSeq(json.hits, 1, i))))
                 /\ Len(mapResults([json.hits EXCEPT ![i].shape = "invalid"]))
                      = Len(Delivered) - 1

C13_Witness ==
  /\ pc = "returned"
  /\ server[2] = "images"
  /\ Len(json.hits) = 2
  /\ json.hits[1].shape = "invalid"
  /\ json.hits[2].shape = "valid"
  /\ Delivered = <<[id |-> 2]>>

ImageHitMapped == mapped # NotMapped /\ rawHit # NoHit /\ "previewURL" \in DOMAIN rawHit

NumericFields == {"id", "imageWidth", "imageHeight", "user_id", "likes", "downloads"}
UrlFields == {"pageURL", "previewURL", "webformatURL"}
TextFields == {"tags", "user"}
Strings == {"emptyString", "text", "httpUrl", "otherUrl"}
RequiredFieldsValid(h) ==
  /\ \A k \in NumericFields : h[k] = "number"
  /\ \A k \in UrlFields : h[k] \in {"httpUrl", "otherUrl"}
  /\ \A k \in TextFields : h[k] \in Strings

\* C14: an image hit whose required fields (numeric id, dimensions,
\* user id, likes and downloads; URLs for page, preview and web format; tag and
\* user strings) are all valid is kept, whatever its other fields contain.
C14_DroppedOnlyForRequiredFields ==
  (ImageHitMapped /\ RequiredFieldsValid(rawHit)) => (mapped = Kept)

VideoHitMapped == mapped # NotMapped /\ rawHit # NoHit /\ "videos" \in DOMAIN rawHit
RenditionKeys == {"medium", "large", "small", "tiny"}
VideoRank == [medium |-> 1, large |-> 2, small |-> 3, tiny |-> 4]
ThumbnailRank == [medium |-> 1, small |-> 2, large |-> 3, tiny |-> 4]

\* the rendition is there and its URL is an http(s) URL
Qualifies(hit, key) ==
  hit.videos[key].present /\ hit.videos[key].url \in {"httpUrl", "paddedHttpUrl"}

\* C15: for every video hit (its fields other than the renditions' URLs being
\* valid) the rendition chosen is the first of medium, large, small, tiny whose
\* URL is an http(s) URL, and the hit is dropped exactly when no rendition
\* qualifies; a hit whose only qualifying rendition is small is kept with
\* small's URL.
C15_FirstQualifyingRendition ==
  (VideoHitMapped /\ rawHit.others = "valid")
    => /\ (mapped = Dropped) <=> (\A k \in RenditionKeys : ~Qualifies(rawHit, k))
       /\ (mapped # Dropped)
            => /\ Qualifies(rawHit, mapped.videoUrl.from)
               /\ \A k \in RenditionKeys :
                    Qualifies(rawHit, k) => VideoRank[mapped.videoUrl.from] <= VideoRank[k]
       /\ ({k \in RenditionKeys : Qualifies(rawHit, k)} = {"small"})
            => (mapped # Dropped /\ mapped.videoUrl.from = "small")

VideoHitKept == VideoHitMapped /\ mapped.status = "kept"

\* the rendition is there and has a thumbnail, of any scheme
HasThumbnail(hit, key) ==
  hit.videos[key].present /\ hit.videos[key].thumbnail \notin {Undefined, "emptyString"}

\* the rendition is there and its thumbnail is an http(s) URL
HasHttpThumbnail(hit, key) ==
  hit.videos[key].present /\ hit.videos[key].thumbnail \in {"httpUrl", "paddedHttpUrl"}

\* C16 as claimed: the preview of a kept video hit is the chosen rendition's
\* thumbnail when it has one, else the thumbnail of the first of medium, small,
\* large, tiny that has one, and null only when no rendition has a thumbnail.
C16_ThumbnailFallback ==
  VideoHitKept
    => /\ HasThumbnail(rawHit, mapped.videoUrl.from)
            => (mapped.previewImageUrl.from = mapped.videoUrl.from)
       /\ (~HasThumbnail(rawHit, mapped.videoUrl.from)
           /\ \E k \in RenditionKeys : HasThumbnail(rawHit, k))
            => /\ mapped.previewImageUrl # NoUrl
               /\ HasThumbnail(rawHit, mapped.previewImageUrl.from)
               /\ \A k \in RenditionKeys :
                    HasThumbnail(rawHit, k)
                      => ThumbnailRank[mapped.previewImageUrl.from] <= ThumbnailRank[k]
       /\ (mapped.previewImageUrl = NoUrl)
            => (\A k \in RenditionKeys : ~HasThumbnail(rawHit, k))

\* C16, amended: the same with "has a thumbnail" read as "has a thumbnail that
\* is an http(s) URL"; a thumbnail of another scheme counts as none.
C16_HttpThumbnailFallback ==
  VideoHitKept
    => /\ HasHttpThumbnail(rawHit, mapped.videoUrl.from)
            => (mapped.previewImageUrl.from = mapped.videoUrl.from)
       /\ (~HasHttpThumbnail(rawHit, mapped.videoUrl.from)
           /\ \E k \in RenditionKeys : HasHttpThumbnail(rawHit, k))
            => /\ mapped.previewImageUrl # NoUrl
               /\ HasHttpThumbnail(rawHit, mapped.previewImageUrl.from)
               /\ \A k \in RenditionKeys :
                    HasHttpThumbnail(rawHit, k)
                      => ThumbnailRank[mapped.previewImageUrl.from] <= ThumbnailRank[k]
       /\ (mapped.previewImageUrl = NoUrl)
            <=> (\A k \in RenditionKeys : ~HasHttpThumbnail(rawHit, k))

C16_Witness ==
  /\ VideoHitKept
  /\ mapped.videoUrl.from = "small"
  /\ rawHit.videos.small.thumbnail = Undefined
  /\ rawHit.videos.medium = Rendition("emptyString", Undefined)
  /\ rawHit.videos.large.thumbnail = "httpUrl"
  /\ rawHit.videos.tiny.thumbnail = "httpUrl"
  /\ mapped.previewImageUrl = UrlOf("httpUrl", "large")

\* C17: the response of every successful search carries the total-hit count:
\* the total the upstream body reports when it reports one (dropped hits
\* included), else the number of surviving results.
C17_TotalHitsDelivered ==
  (pc = "returned")
    => (result.meta.totalHits =
          IF json.totalHits.defined THEN json.totalHits.value ELSE Len(Delivered))

\* the invocation is over and the upstream had answered with this status
EndedWith(statuses) == Settled /\ response # NoResponse /\ response.status \in statuses

\* C18 as claimed: a 401 or 403 always fails the invocation with the message
\* "Pixabay authentication failed. Verify the API key.", whatever the body.
C18_AuthenticationFailed ==
  EndedWith({401, 403})
    => /\ pc = "threw"
       /\ error = McpError("InternalError",
                    "Pixabay authentication failed. Verify the API key.")

\* C18, amended: a 401 or 403 always fails the invocation with the message
\* "Pixabay authentication failed. Verify PIXABAY_API_KEY.", whatever the body
\* and whether or not it can be read.
C18_AuthenticationFailedMessage ==
  EndedWith({401, 403})
    => /\ pc = "threw"
       /\ result = NoResult
       /\ error = McpError("InternalError",
                    "Pixabay authentication failed. Verify PIXABAY_API_KEY.")

C18_Witness ==
  /\ EndedWith({403})
  /\ errorText = ErrorText(TRUE, <<"o", "o", "p", "s", "\n">>)
  /\ error.message = "Pixabay authentication failed. Verify PIXABAY_API_KEY."

\* C19: a 429 always fails the invocation with the message "Pixabay rate limit
\* exceeded. Please wait a moment before trying again.", whatever the body and
\* whether or not it can be read.
C19_RateLimited ==
  EndedWith({429})
    => /\ pc = "threw"
       /\ result = NoResult
       /\ error = McpError("InternalError",
                    "Pixabay rate limit exceeded. Please wait a moment before trying again.")

C19_Witness ==
  /\ EndedWith({429})
  /\ errorText.outcome = "rejected"
  /\ ~signalAborted
  /\ error.message
       = "Pixabay rate limit exceeded. Please wait a moment before trying again."

RequestFailed(status, detail) ==
  McpError("InternalError",
           "Pixabay request failed (" \o ToString(status) \o "): " \o detail)

\* part occurs in message
Contains(message, part) ==
  \E i \in 1..(Len(message) - Len(part) + 1) :
    SubSeq(message, i, i + Len(part) - 1) = part

\* C20 as claimed: every other non-success status fails the invocation with a
\* message that contains the status code and the body text, or the status line
\* when the body cannot be read.
C20_UpstreamRequestFailed ==
  (EndedWith(Statuses \ {401, 403, 429}) /\ ~ok(response.status))
    => /\ pc = "threw"
       /\ Contains(error.message, ToString(response.status))
       /\ (errorText.outcome = "resolved")
            => Contains(error.message, Str(errorText.text))
       /\ (errorText.outcome = "rejected")
            => Contains(error.message, response.statusText)

\* C20, amended: the message is made of the status code and the body text
\* trimmed of surrounding white space, or the status line when the body is
\* blank or cannot be read; the failure is always this McpError.
C20_UpstreamRequestFailedTrimmed ==
  (EndedWith(Statuses \ {401, 403, 429}) /\ ~ok(response.status))
    => /\ pc = "threw"
       /\ result = NoResult
       /\ (errorText.outcome = "resolved" /\ trim(errorText.text) # <<>>)
            => (error = RequestFailed(response.status, Str(trim(errorText.text))))
       /\ (errorText.outcome = "rejected" \/ trim(errorText.text) = <<>>)
            => (error = RequestFailed(response.status, response.statusText))

C20_Witness ==
  /\ EndedWith({500})
  /\ errorText = ErrorText(TRUE, <<"o", "o", "p", "s", "\n">>)
  /\ error.message = "Pixabay request failed (500): oops"

\* the query of the payload, as validation and normalizeQuery leave it
NormalizedQuery == normalizeQuery(trim(rawInput.query.str)).value

ImageSummary(n, query) ==
  IF n > 0
  THEN "Found " \o ToString(n) \o " Pixabay " \o (IF n = 1 THEN "image" ELSE "images")
       \o " for \"" \o Str(query) \o "\"."
  ELSE "No Pixabay images found for \"" \o Str(query)
       \o "\". Try a different description or add more detail."

\* C21: every successful invocation of an image-only server has the summary
\* `Found N Pixabay image(s) for "<query>".` when N = resultCount > 0 ("image"
\* for N = 1) and `No Pixabay images found for "<query>". Try a different
\* description or add more detail.` when N = 0, <query> being the normalized
\* query.
C21_ImageOnlySummary ==
  (pc = "returned" /\ server[1] \in {"imageOnly", "stdio"})
    => /\ result.structuredContent.resultCount = Len(Valid(json.hits))
       /\ result.summary
            = ImageSummary(result.structuredContent.resultCount, NormalizedQuery)

SummaryBuilt == bsOutput # NoSummary

Counted(n, singular) ==
  ToString(n) \o " " \o singular \o (IF n = 1 THEN "" ELSE "s")

\* C22: buildSummary lists exactly the categories (images, videos) whose count
\* is not zero, images before videos, each pluralised by its count and joined
\* with a final "and", and returns the not-found message if and only if both
\* counts are zero.
C22_BuildSummary ==
  SummaryBuilt
    => LET i == bsInput.imageCount
           v == bsInput.videoCount
           tail == " on Pixabay for \"" \o Str(bsInput.query) \o "\"."
           notFound == "No Pixabay media found for \"" \o Str(bsInput.query)
                       \o "\". Try a different description or add more detail."
       IN  /\ (i > 0 /\ v > 0)
                => bsOutput = "Found " \o Counted(i, "image") \o " and "
                              \o Counted(v, "video") \o tail
           /\ (i > 0 /\ v = 0) => bsOutput = "Found " \o Counted(i, "image") \o tail
           /\ (i = 0 /\ v > 0) => bsOutput = "Found " \o Counted(v, "video") \o tail
           /\ (bsOutput = notFound) <=> (i = 0 /\ v = 0)

C22_Witness ==
  /\ SummaryBuilt
  /\ bsInput.imageCount = 3 /\ bsInput.videoCount = 2
  /\ bsOutput = "Found 3 images and 2 videos on Pixabay for \"cats\"."

NonEmptyString(v) == v.kind = "string" /\ v.str # <<>>

\* the locale hint of the call metadata, key by key
LocaleHint(m) ==
  IF m.kind = "object" /\ NonEmptyString(m.openai) THEN m.openai.str
  ELSE IF m.kind = "object" /\ NonEmptyString(m.webplus) THEN m.webplus.str
  ELSE <<"e", "n">>

\* C23: the locale of a call is the non-empty string under `openai/locale` of
\* the call metadata, otherwise the non-empty string under `webplus/i18n`,
\* otherwise "en"; every successful response reports this locale in its metadata.
C23_LocaleHint ==
  (pc = "returned") => (result.meta.locale = LocaleHint(meta))

Numeric(h) ==
  h.kind = "string" /\ h.str # <<>> /\ \A i \in 1..Len(h.str) : h.str[i] \in Digits

\* the rate-limit field a header gives: omitted, or the number the header holds
RateLimitField(h) == IF Numeric(h) THEN Known(digitsValue(h.str, 0)) ELSE Unknown

\* how an invocation ends that got a response and was not cancelled, by all
\* but the response's headers
HeaderBlindOutcome ==
  IF ~ok(response.status)
  THEN [pc |-> "threw", result |-> NoResult,
        error |-> throwForErrorResponse(response.status,
                    safeReadError(errorText.outcome = "resolved", errorText.text,
                                  response.statusText)).error]
  ELSE IF json.kind # "json"
  THEN [pc |-> "threw", result |-> NoResult,
        error |-> IF json.kind = "notJson" THEN BodySyntaxError ELSE BodyTypeError]
  ELSE [pc |-> "returned", error |-> NoError,
        result |-> handlerResult(server[1], server[2], input, locale,
                                 searchResult(json, NoRateLimit))]

\* C24: the rate-limit headers never affect the outcome.  For each of the three
\* headers an absent or non-numeric value leaves the rate-limit field omitted
\* and a numeric value is reported as that number; the results, the summary and
\* the success or failure of the invocation are the same whatever the headers.
C24_RateLimitHeaders ==
  (Settled /\ response # NoResponse /\ ~signalAborted)
    => /\ pc = HeaderBlindOutcome.pc
       /\ error = HeaderBlindOutcome.error
       /\ [result EXCEPT !.meta.rateLimit = NoRateLimit] = HeaderBlindOutcome.result
       /\ (pc = "returned")
            => /\ result.meta.rateLimit.limit = RateLimitField(response.headers.limit)
               /\ result.meta.rateLimit.remaining
                    = RateLimitField(response.headers.remaining)
               /\ result.meta.rateLimit.resetSeconds
                    = RateLimitField(response.headers.reset)

C24_Witness ==
  /\ pc = "returned"
  /\ response.headers.limit = HeaderValue("string", <<"1", "0", "0">>)
  /\ response.headers.remaining = HeaderValue("string", <<"a">>)
  /\ result.meta.rateLimit
       = [limit |-> Known(100), remaining |-> Unknown, resetSeconds |-> Known(60)]
  /\ Len(Delivered) = 1

\* a query as the SearchRequest invariant wants it
WellFormedQuery(q) ==
  /\ q # <<>>
  /\ q[1] \notin WhiteSpace /\ q[Len(q)] \notin WhiteSpace
  /\ Len(q) <= 100

\* C28: for every payload that passes validation, the query that is sent
\* upstream and echoed in the structured output is, after normalizeQuery,
\* non-empty, without leading or trailing white space and at most 100
\* characters long.
C28_NormalizedQueryWellFormed ==
  /\ (request # NoRequest) => WellFormedQuery(request.q)
  /\ (pc = "returned") => /\ WellFormedQuery(result.structuredContent.query)
                          /\ result.structuredContent.query = request.q

C28_Witness ==
  /\ pc = "returned"
  /\ server[1] = "combined"
  /\ rawInput.query.str = Pad(MaxPad, jsonBlankCats, MaxPad)
  /\ request.q = cats
  /\ result.structuredContent.query = cats

UpstreamHits == IF json.hitsIsArray THEN Len(json.hits) ELSE 0

\* C29: in every structured output the counts equal the list lengths
\* (resultCount = |results|; imageCount = |images|, videoCount = |videos|) and
\* never exceed the number of hits the upstream returned; in the image and
\* video server the image tool returns videoCount = 0 and no videos, the video
\* tool imageCount = 0 and no images.
C29_CountsEqualLengths ==
  (pc = "returned")
    => LET c == result.structuredContent
       IN  IF server[1] = "combined"
           THEN /\ c.imageCount = Len(c.images) /\ c.videoCount = Len(c.videos)
                /\ c.imageCount + c.videoCount <= UpstreamHits
                /\ (server[2] = "images") => (c.videoCount = 0 /\ c.videos = <<>>)
                /\ (server[2] = "videos") => (c.imageCount = 0 /\ c.images = <<>>)
           ELSE /\ c.resultCount = Len(c.results)
                /\ c.resultCount <= UpstreamHits

C29_Witness ==
  /\ pc = "returned"
  /\ server = <<"combined", "videos">>
  /\ Len(json.hits) = 2
  /\ result.structuredContent.videoCount = 1
  /\ result.structuredContent.imageCount = 0

\* the invocation of task t run alone, with a client nothing else has called,
\* on t's payload and metadata and the response and body t has got so far
Headed(t0, t) == IF t.response = NoResponse THEN t0 ELSE taskResponse(t0, t.response)
Ended(t1, t) ==
  IF t.errorText # NotRead
  THEN taskError(t1, t.errorText.outcome = "resolved", t.errorText.text,
                 throwForErrorResponse(
                   t.response.status,
                   safeReadError(t.errorText.outcome = "resolved", t.errorText.text,
                                 t.response.statusText)))
  ELSE IF t.json # NoBody THEN taskBody(t1, t.json)
  ELSE t1
Alone(t) == Ended(Headed(taskStart(NoFields, t.server, t.rawInput, t.meta), t), t)

\* C25: invocations in flight together do not interact.  Under every
\* interleaving of their steps each invocation's request and outcome (result or
\* error) are those it produces running alone on its own input, metadata and
\* upstream response, and no invocation changes the client they share.
C25_InvocationsIndependent ==
  /\ pixabayClient = NoFields
  /\ \A i \in TaskIds : (tasks[i].pc # "idle") => (tasks[i] = Alone(tasks[i]))

C25_Witness ==
  /\ tasks[1].pc = "returned"
  /\ tasks[1].request.lang = <<"p", "t">>
  /\ tasks[1].server = <<"combined", "videos">>
  /\ tasks[2].pc = "threw"
  /\ tasks[2].response.status = 429
  /\ tasks[2].request.lang = <<"f", "r">>

\* the tags of a text, first to last: what lies between two commas, a comma
\* and an end, or the two ends of the text, trimmed, unless it is blank
RECURSIVE TagsOf(_, _)
TagsOf(text, tag) ==
  LET found == IF trim(tag) = <<>> THEN <<>> ELSE <<trim(tag)>>
  IN  IF text = <<>> THEN found
      ELSE IF Head(text) = "," THEN found \o TagsOf(Tail(text), <<>>)
      ELSE TagsOf(Tail(text), Append(tag, Head(text)))

ResourceServed == widgetHtml.status \in {"returned", "threw"}
StyleBlock == "<style>"

\* C27: serving the widget resource fails whenever the script bundle is absent,
\* and succeeds without a style block whenever the script is present and the
\* stylesheet is absent; the absence of the stylesheet alone never makes
\* serving fail.
C27_MissingPresentationAsset ==
  /\ (distFiles.script.kind = "absent" /\ fileReads.script.state # "pending"
        /\ widgetHtml.status # "notLoaded")
       => (widgetHtml.status = "threw")
  /\ (distFiles.script.kind = "absent") => (widgetHtml.status # "returned")
  /\ (distFiles.script.kind = "text" /\ distFiles.style.kind = "absent"
        /\ fileReads.script.state = "fulfilled" /\ fileReads.style.state = "fulfilled")
       => /\ widgetHtml.status = "returned"
          /\ ~Contains(widgetHtml.html, StyleBlock)
          /\ Contains(widgetHtml.html, Str(distFiles.script.text))
  /\ (distFiles.script.kind = "text" /\ distFiles.style.kind = "absent")
       => (widgetHtml.status # "threw")

C27_Witness ==
  /\ widgetHtml.status = "returned"
  /\ distFiles.script = File("text", <<"r", "u", "n", "(", ")">>)
  /\ distFiles.style.kind = "absent"
  /\ Contains(widgetHtml.html, "<script type=\"module\">\nrun()\n    </script>")

InList(id, videos) == \E i \in 1..Len(videos) : videos[i] = id

\* C30: after any sequence of thumbnail selections, widget-state updates of the
\* host and changes of the tool output, the video shown as selected is one of
\* the current videos whenever there are any (the active one, or the first
\* when the active id is none of them), and no video is shown when there are
\* none.
C30_SelectedVideoInList ==
  LET videos == videosOf(toolOutput)
  IN  IF videos = <<>> THEN shownVideo = Null
      ELSE /\ InList(shownVideo, videos)
           /\ InList(activeVideoId, videos) => shownVideo = activeVideoId
           /\ ~InList(activeVideoId, videos) => shownVideo = videos[1]

C30_Witness ==
  /\ videosOf(toolOutput) = <<2, 1>>
  /\ activeVideoId = 3
  /\ widgetState = WidgetState(3)
  /\ pendingEffects = {}
  /\ shownVideo = 2

====
